---- MODULE Spec2Model ----
(***************************************************************************)
(* Library management services (lms): the checkout and hold state machines *)
(* and the versioned DynamoDB repositories they write through.             *)
(*                                                                         *)
(* Every `.await` of a service method is a suspension point, so a service  *)
(* call is a sequence of steps (find patron, find book, query, write,      *)
(* publish) that interleave with the steps of the other tasks.  A store or *)
(* publisher call may also fail for transport reasons at any step.         *)
(*                                                                         *)
(* Timestamps are kept by their stored encoding rather than their value:   *)
(* "Null" (AttributeValue::Null), "Empty" (S("")), "Rfc3339" (written by   *)
(* utils::date::serializer, with a +00:00 suffix) and "Naive" (DATE_FMT).  *)
(* In memory a date is "None", "Some", "Now" (an unparsable attribute      *)
(* replaced by Utc::now()) or "Default" (NaiveDateTime::default()).        *)
(***************************************************************************)
EXTENDS Integers, FiniteSets, Sequences, Bags, TLC

VARIABLES
    service,    \* the service binary whose requests the tasks serve
    books,      \* table "books": book_id -> item
    parties,    \* table "parties": party_id -> item
    checkouts,  \* table "checkout": checkout_id -> item
    holds,      \* table "hold": hold_id -> item
    events,     \* the event feed, a bag of published events
    task        \* the service call each task is running, and its position

vars == <<service, books, parties, checkouts, holds, events, task>>

(* ---------------------------- bounds ----------------------------------- *)
MaxCheckouts == 2
MaxHolds == 2

Tasks == {"t1", "t2"}
PatronIds == {"p1", "p2"}
BookIds == {"b1", "b2"}
NoPatron == "p0"
NoBook == "b0"
BranchId == "test"

(* ---------------------------- enums ------------------------------------ *)
BookStatus == {"Available", "CheckedOut", "OnHold", "Deleted", "Unknown"}
Role == {"Admin", "Regular", "Child", "Employee", "Librarian"}
CheckoutStatus == {"CheckedOut", "Returned"}
HoldStatus == {"OnHold", "Waiting", "CheckedOut", "Canceled"}

(* ---------------------- utils::ddb conversions ------------------------- *)
\* parse_date_attribute: only an S attribute in DATE_FMT parses
parse_date_attribute(attr) == IF attr = "Naive" THEN "Some" ELSE "None"

\* `.unwrap_or_else(|| Utc::now().naive_utc())` on a parsed date
date_or_now(attr) == IF parse_date_attribute(attr) = "Some" THEN "Some" ELSE "Now"

\* string_date: format with DATE_FMT
string_date(date) == "Naive"

\* opt_string_date: None is written as the empty string
opt_string_date(opt_date) == IF opt_date = "None" THEN "Empty" ELSE string_date(opt_date)

\* serde of a `#[serde(with = "serializer")]` date: to_rfc3339
serializer(date) == "Rfc3339"

\* serde of an Option<NaiveDateTime> without the serializer
serde_opt_date(opt_date) == IF opt_date = "None" THEN "Null" ELSE "Naive"

\* group_roles: create writes a list attribute, update writes a JSON string;
\* the reader only accepts the string form
RolesItem(form, roles) == [form |-> form, roles |-> roles]

party_roles_from_item(attr) == IF attr.form = "S" THEN attr.roles ELSE {}

(* ------------------------- error taxonomy ------------------------------ *)
LibErr(kind, retryable, reason_code) ==
    [kind |-> kind, retryable |-> retryable, reason_code |-> reason_code]

Ok == LibErr("Ok", FALSE, "")
NoResult == LibErr("none", FALSE, "")
not_found == LibErr("NotFound", FALSE, "")
validation(reason_code) == LibErr("Validation", FALSE, reason_code)
runtime == LibErr("Runtime", FALSE, "")

\* http::StatusCode::is_server_error
is_server_error(status) == status \in {"500", "502", "503", "504"}

\* retryable_sdk_error: (retryable, reason) of an SdkError
retryable_sdk_error(err) ==
    CASE err.kind = "ConstructionFailure" -> [retryable |-> FALSE, reason |-> "ConstructionFailure"]
      [] err.kind = "TimeoutError" -> [retryable |-> TRUE, reason |-> "TimeoutError"]
      [] err.kind = "DispatchFailure" -> [retryable |-> TRUE, reason |-> "DispatchFailure"]
      [] err.kind = "ResponseError" -> [retryable |-> TRUE, reason |-> "ResponseError"]
      [] err.kind = "ServiceError" ->
            [retryable |-> is_server_error(err.status) \/ err.exceeded, reason |-> err.status]
      [] OTHER -> [retryable |-> TRUE, reason |-> "Unknown"]

\* the characters of the texts that reasons and patterns are made of
Chars(text) ==
    CASE text = "" -> << >>
      [] text = "40" -> <<"4", "0">>
      [] text = "400" -> <<"4", "0", "0">>
      [] text = "401" -> <<"4", "0", "1">>
      [] text = "403" -> <<"4", "0", "3">>
      [] text = "404" -> <<"4", "0", "4">>
      [] text = "409" -> <<"4", "0", "9">>
      [] text = "500" -> <<"5", "0", "0">>
      [] text = "502" -> <<"5", "0", "2">>
      [] text = "503" -> <<"5", "0", "3">>
      [] text = "504" -> <<"5", "0", "4">>
      [] text = "1404" -> <<"1", "4", "0", "4">>
      [] text = "4004" -> <<"4", "0", "0", "4">>
      [] text = "4040" -> <<"4", "0", "4", "0">>
      [] text = "14000" -> <<"1", "4", "0", "0", "0">>
      [] text = "400404" -> <<"4", "0", "0", "4", "0", "4">>
      [] text = "404400" -> <<"4", "0", "4", "4", "0", "0">>
      [] text = "400 Bad Request" ->
            <<"4", "0", "0", " ", "B", "a", "d", " ", "R", "e", "q", "u", "e", "s", "t">>
      [] text = "404 Not Found" ->
            <<"4", "0", "4", " ", "N", "o", "t", " ", "F", "o", "u", "n", "d">>
      [] text = "ConstructionFailure" ->
            <<"C", "o", "n", "s", "t", "r", "u", "c", "t", "i", "o", "n",
              "F", "a", "i", "l", "u", "r", "e">>

\* str::contains
contains(text, pattern) ==
    LET s == Chars(text)
        p == Chars(pattern)
    IN \E i \in 1..(Len(s) - Len(p) + 1) : SubSeq(s, i, i + Len(p) - 1) = p

\* reason: None
NoReason == "None"

\* a mapping that looks for the two codes as the whole reason
database_or_unavailable_WholeReason(reason, retryable) ==
    IF retryable THEN LibErr("CurrentlyUnavailable", TRUE, reason)
    ELSE IF reason = "404" THEN LibErr("NotFound", FALSE, "")
    ELSE IF reason = "400" THEN LibErr("AccessDenied", FALSE, reason)
    ELSE LibErr("Database", FALSE, reason)

\* a mapping that files what can be retried as a Database error
database_or_unavailable_RetryableDatabase(reason, retryable) ==
    IF retryable THEN LibErr("Database", TRUE, reason)
    ELSE IF reason = "404" THEN LibErr("NotFound", FALSE, "")
    ELSE IF reason = "400" THEN LibErr("AccessDenied", FALSE, reason)
    ELSE LibErr("Database", FALSE, reason)

\* LibraryError::database_or_unavailable
database_or_unavailable(reason, retryable) ==
    IF retryable THEN LibErr("CurrentlyUnavailable", TRUE, reason)
    ELSE IF reason = NoReason THEN LibErr("Database", FALSE, reason)
    ELSE IF contains(reason, "404") THEN LibErr("NotFound", FALSE, "")
    ELSE IF contains(reason, "400") THEN LibErr("AccessDenied", FALSE, reason)
    ELSE LibErr("Database", FALSE, reason)

\* impl From<SdkError<..>> for LibraryError
from_sdk_error(err) ==
    LET r == retryable_sdk_error(err) IN database_or_unavailable(r.reason, r.retryable)

\* the store's answer to a failed condition expression
ConditionalCheckFailed == [kind |-> "ServiceError", status |-> "400", exceeded |-> FALSE]

\* transport failures a store call can meet at any suspension point
TransportErrors == { [kind |-> "TimeoutError", status |-> "", exceeded |-> FALSE] }

\* what a caller gets when a store request fails in transport
TransportResults == {from_sdk_error(e) : e \in TransportErrors}

\* what a failing publisher returns: the SNS publisher maps every failure to
\* Runtime, the store-backed publisher goes through from_sdk_error
PublishErrors == {runtime} \cup TransportResults

(* --------------------------- entities ---------------------------------- *)
\* PatronDto::is_role
is_role(patron, match_role) == match_role \in patron.group_roles

\* PatronDto::is_regular
is_regular(patron) == patron.group_roles = {} \/ is_role(patron, "Regular")

\* impl From<&HashMap<String, AttributeValue>> for PartyEntity, then
\* impl From<&PartyEntity> for PatronDto
PatronFromItem(item) ==
    [patron_id |-> item.party_id, version |-> item.version,
     group_roles |-> party_roles_from_item(item.group_roles)]

\* map_to_book, then impl From<&BookEntity> for BookDto
BookFromItem(item) ==
    [book_id |-> item.book_id, version |-> item.version,
     book_status |-> item.book_status, restricted |-> item.restricted]

\* CheckoutDto::from_patron_book, then impl From<&CheckoutDto> for CheckoutEntity
CheckoutFromPatronBook(id, branch_id, patron, book) ==
    [checkout_id |-> id, version |-> 0, branch_id |-> branch_id,
     book_id |-> book.book_id, patron_id |-> patron.patron_id,
     checkout_status |-> "CheckedOut", checkout_at |-> "Some", due_at |-> "Some",
     returned_at |-> "None", created_at |-> "Some", updated_at |-> "Some"]

\* serde_json::to_value(CheckoutEntity) through parse_item
CheckoutItem(e) ==
    [checkout_id |-> e.checkout_id, version |-> e.version, branch_id |-> e.branch_id,
     book_id |-> e.book_id, patron_id |-> e.patron_id,
     checkout_status |-> e.checkout_status,
     checkout_at |-> serializer(e.checkout_at), due_at |-> serializer(e.due_at),
     returned_at |-> serde_opt_date(e.returned_at),
     created_at |-> serializer(e.created_at), updated_at |-> serializer(e.updated_at)]

\* impl From<&HashMap<String, AttributeValue>> for CheckoutEntity
CheckoutFromItem(item) ==
    [checkout_id |-> item.checkout_id, version |-> item.version,
     branch_id |-> item.branch_id, book_id |-> item.book_id,
     patron_id |-> item.patron_id, checkout_status |-> item.checkout_status,
     checkout_at |-> "Default", due_at |-> date_or_now(item.due_at),
     returned_at |-> parse_date_attribute(item.returned_at),
     created_at |-> date_or_now(item.created_at),
     updated_at |-> date_or_now(item.updated_at)]

\* a hold that starts in the queue of the book
HoldFromPatronBook_Waiting(id, branch_id, patron, book) ==
    [hold_id |-> id, version |-> 0, branch_id |-> branch_id,
     book_id |-> book.book_id, patron_id |-> patron.patron_id,
     hold_status |-> "Waiting", hold_at |-> "Some", expires_at |-> "Some",
     canceled_at |-> "None", checked_out_at |-> "None",
     created_at |-> "Some", updated_at |-> "Some"]

\* hold::domain::service::from_patron_book
HoldFromPatronBook(id, branch_id, patron, book) ==
    [hold_id |-> id, version |-> 0, branch_id |-> branch_id,
     book_id |-> book.book_id, patron_id |-> patron.patron_id,
     hold_status |-> "OnHold", hold_at |-> "Some", expires_at |-> "Some",
     canceled_at |-> "None", checked_out_at |-> "None",
     created_at |-> "Some", updated_at |-> "Some"]

\* serde_json::to_value(HoldEntity) through parse_item
HoldItem(e) ==
    [hold_id |-> e.hold_id, version |-> e.version, branch_id |-> e.branch_id,
     book_id |-> e.book_id, patron_id |-> e.patron_id, hold_status |-> e.hold_status,
     hold_at |-> serializer(e.hold_at), expires_at |-> serializer(e.expires_at),
     canceled_at |-> serde_opt_date(e.canceled_at),
     checked_out_at |-> serde_opt_date(e.checked_out_at),
     created_at |-> serializer(e.created_at), updated_at |-> serializer(e.updated_at)]

\* impl From<&HashMap<String, AttributeValue>> for HoldEntity
HoldFromItem(item) ==
    [hold_id |-> item.hold_id, version |-> item.version,
     branch_id |-> item.branch_id, book_id |-> item.book_id,
     patron_id |-> item.patron_id, hold_status |-> item.hold_status,
     hold_at |-> date_or_now(item.hold_at), expires_at |-> date_or_now(item.expires_at),
     canceled_at |-> parse_date_attribute(item.canceled_at),
     checked_out_at |-> parse_date_attribute(item.checked_out_at),
     created_at |-> date_or_now(item.created_at),
     updated_at |-> date_or_now(item.updated_at)]

\* a stored book as DDBBookRepository::create writes it
BookItem(id, status, restricted) ==
    [book_id |-> id, version |-> 0, isbn |-> "isbn", title |-> "title",
     book_status |-> status, restricted |-> restricted, updated_at |-> "Rfc3339"]

\* a stored party: group_roles in the list form of create ("L") or the string
\* form of update ("S")
PartyItem(id, form, roles) ==
    [party_id |-> id, version |-> IF form = "S" THEN 1 ELSE 0, kind |-> "Patron", email |-> "email",
     group_roles |-> RolesItem(form, roles), updated_at |-> "Rfc3339"]

\* map_to_book
BookEntityFromItem(item) ==
    [book_id |-> item.book_id, version |-> item.version, isbn |-> item.isbn,
     title |-> item.title, book_status |-> item.book_status,
     restricted |-> item.restricted, updated_at |-> date_or_now(item.updated_at)]

\* impl From<&HashMap<String, AttributeValue>> for PartyEntity
PartyEntityFromItem(item) ==
    [party_id |-> item.party_id, version |-> item.version, kind |-> item.kind,
     email |-> item.email, group_roles |-> party_roles_from_item(item.group_roles),
     updated_at |-> date_or_now(item.updated_at)]

\* serde_json::to_value(BookEntity) through parse_item
BookEntityItem(e) ==
    [book_id |-> e.book_id, version |-> e.version, isbn |-> e.isbn, title |-> e.title,
     book_status |-> e.book_status, restricted |-> e.restricted,
     updated_at |-> serializer(e.updated_at)]

\* serde_json::to_value(PartyEntity) through parse_item
PartyEntityItem(e) ==
    [party_id |-> e.party_id, version |-> e.version, kind |-> e.kind, email |-> e.email,
     group_roles |-> RolesItem("L", e.group_roles),
     updated_at |-> serializer(e.updated_at)]

(* ------------------------- repositories -------------------------------- *)
\* A repository call yields the table after the call and the LibraryResult.
Reply(table, result) == [table |-> table, result |-> result]

Min(a, b) == IF a < b THEN a ELSE b

\* a condition that lets the write through when the store has no record
VersionMatches_OrAbsent(table, id, version) ==
    id \notin DOMAIN table \/ table[id].version = version

\* condition_expression("attribute_exists(version) AND version = :old_version")
VersionMatches(table, id, version) == id \in DOMAIN table /\ table[id].version = version

\* DDBCheckoutRepository::create
CheckoutRepoCreate(table, e) ==
    IF e.checkout_id \in DOMAIN table
    THEN Reply(table, from_sdk_error(ConditionalCheckFailed))
    ELSE Reply(table @@ (e.checkout_id :> CheckoutItem(e)), Ok)

\* a checkout update whose condition only asks for the record to exist
CheckoutRepoUpdate_Unconditional(table, e) ==
    IF e.checkout_id \in DOMAIN table
    THEN Reply([table EXCEPT ![e.checkout_id] =
                    [@ EXCEPT !.version = e.version + 1,
                              !.checkout_status = e.checkout_status,
                              !.due_at = string_date(e.due_at),
                              !.returned_at = opt_string_date(e.returned_at),
                              !.updated_at = string_date("Now")]], Ok)
    ELSE Reply(table, from_sdk_error(ConditionalCheckFailed))

\* a checkout update that writes the version it was given
CheckoutRepoUpdate_KeepsVersion(table, e) ==
    IF VersionMatches(table, e.checkout_id, e.version)
    THEN Reply([table EXCEPT ![e.checkout_id] =
                    [@ EXCEPT !.version = e.version,
                              !.checkout_status = e.checkout_status,
                              !.due_at = string_date(e.due_at),
                              !.returned_at = opt_string_date(e.returned_at),
                              !.updated_at = string_date("Now")]], Ok)
    ELSE Reply(table, from_sdk_error(ConditionalCheckFailed))

\* a checkout update that puts the whole entity in place of the stored record
CheckoutRepoUpdate_WholeEntity(table, e) ==
    IF VersionMatches(table, e.checkout_id, e.version)
    THEN Reply([table EXCEPT ![e.checkout_id] =
                    [CheckoutItem(e) EXCEPT !.version = e.version + 1]], Ok)
    ELSE Reply(table, from_sdk_error(ConditionalCheckFailed))

\* DDBCheckoutRepository::update
CheckoutRepoUpdate(table, e) ==
    IF VersionMatches(table, e.checkout_id, e.version)
    THEN Reply([table EXCEPT ![e.checkout_id] =
                    [@ EXCEPT !.version = e.version + 1,
                              !.checkout_status = e.checkout_status,
                              !.due_at = string_date(e.due_at),
                              !.returned_at = opt_string_date(e.returned_at),
                              !.updated_at = string_date("Now")]], Ok)
    ELSE Reply(table, from_sdk_error(ConditionalCheckFailed))

\* DDBHoldRepository::create
HoldRepoCreate(table, e) ==
    IF e.hold_id \in DOMAIN table
    THEN Reply(table, from_sdk_error(ConditionalCheckFailed))
    ELSE Reply(table @@ (e.hold_id :> HoldItem(e)), Ok)

\* a hold update whose condition only asks for the record to exist
HoldRepoUpdate_Unconditional(table, e) ==
    IF e.hold_id \in DOMAIN table
    THEN Reply([table EXCEPT ![e.hold_id] =
                    [@ EXCEPT !.version = e.version + 1,
                              !.hold_status = e.hold_status,
                              !.hold_at = string_date(e.hold_at),
                              !.expires_at = string_date(e.expires_at),
                              !.canceled_at = opt_string_date(e.canceled_at),
                              !.checked_out_at = opt_string_date(e.checked_out_at),
                              !.updated_at = string_date("Now")]], Ok)
    ELSE Reply(table, from_sdk_error(ConditionalCheckFailed))

\* DDBHoldRepository::update
HoldRepoUpdate(table, e) ==
    IF VersionMatches(table, e.hold_id, e.version)
    THEN Reply([table EXCEPT ![e.hold_id] =
                    [@ EXCEPT !.version = e.version + 1,
                              !.hold_status = e.hold_status,
                              !.hold_at = string_date(e.hold_at),
                              !.expires_at = string_date(e.expires_at),
                              !.canceled_at = opt_string_date(e.canceled_at),
                              !.checked_out_at = opt_string_date(e.checked_out_at),
                              !.updated_at = string_date("Now")]], Ok)
    ELSE Reply(table, from_sdk_error(ConditionalCheckFailed))

\* DDBBookRepository::create
BookRepoCreate(table, e) ==
    IF e.book_id \in DOMAIN table
    THEN Reply(table, from_sdk_error(ConditionalCheckFailed))
    ELSE Reply(table @@ (e.book_id :> BookEntityItem(e)), Ok)

\* DDBPartyRepository::create
PartyRepoCreate(table, e) ==
    IF e.party_id \in DOMAIN table
    THEN Reply(table, from_sdk_error(ConditionalCheckFailed))
    ELSE Reply(table @@ (e.party_id :> PartyEntityItem(e)), Ok)

\* a delete that asks for the record to exist
TableDelete_IfExists(table, id) ==
    IF id \in DOMAIN table
    THEN Reply([k \in DOMAIN table \ {id} |-> table[k]], Ok)
    ELSE Reply(table, from_sdk_error(ConditionalCheckFailed))

\* DDB*Repository::delete: delete_item by key, without a condition
TableDelete(table, id) == Reply([k \in DOMAIN table \ {id} |-> table[k]], Ok)

\* DDBBookRepository::update
BookRepoUpdate(table, e) ==
    IF VersionMatches(table, e.book_id, e.version)
    THEN Reply([table EXCEPT ![e.book_id] =
                    [@ EXCEPT !.version = e.version + 1,
                              !.title = e.title,
                              !.book_status = e.book_status,
                              !.restricted = e.restricted,
                              !.updated_at = string_date("Now")]], Ok)
    ELSE Reply(table, from_sdk_error(ConditionalCheckFailed))

\* DDBPartyRepository::update
PartyRepoUpdate(table, e) ==
    IF VersionMatches(table, e.party_id, e.version)
    THEN Reply([table EXCEPT ![e.party_id] =
                    [@ EXCEPT !.version = e.version + 1,
                              !.email = e.email,
                              !.kind = e.kind,
                              !.group_roles = RolesItem("S", e.group_roles),
                              !.updated_at = string_date("Now")]], Ok)
    ELSE Reply(table, from_sdk_error(ConditionalCheckFailed))

\* The index query of DDB*Repository::query: the key condition selects the
\* index partition `status_field = predicate[status_field]` (or the default
\* status) and, when given, the sort key; the store evaluates at most
\* min(page_size, 500) items of it and only then applies the filter built by
\* add_filter_expr from the remaining predicate fields.  The order of items
\* with equal index keys is the store's, so every choice of evaluated items
\* is a possible page.
MaxPageSize == 500

QueryPages(table, status_field, default_status, sort_field, predicate, page_size) ==
    LET status == IF status_field \in DOMAIN predicate
                  THEN predicate[status_field] ELSE default_status
        partition == {id \in DOMAIN table :
                        /\ table[id][status_field] = status
                        /\ sort_field \in DOMAIN predicate
                              => table[id][sort_field] = predicate[sort_field]}
        limit == Min(Min(page_size, MaxPageSize), Cardinality(partition))
        filter == DOMAIN predicate \ {status_field, sort_field}
    IN  { {id \in evaluated : \A k \in filter : table[id][k] = predicate[k]} :
            evaluated \in {s \in SUBSET partition : Cardinality(s) = limit} }

\* a checkout query whose key condition leaves out the patron
CheckoutRepoQuery_AnyPatron(table, predicate, page_size) ==
    QueryPages(table, "checkout_status", "CheckedOut", "patron_id",
               [k \in DOMAIN predicate \ {"patron_id"} |-> predicate[k]], page_size)

\* DDBCheckoutRepository::query
CheckoutRepoQuery(table, predicate, page_size) ==
    QueryPages(table, "checkout_status", "CheckedOut", "patron_id", predicate, page_size)

\* a hold query that reads the index partition of every status
HoldRepoQuery_AnyStatus(table, predicate, page_size) ==
    UNION {QueryPages(table, "hold_status", st, "patron_id", predicate, page_size) :
              st \in HoldStatus}

\* DDBHoldRepository::query
HoldRepoQuery(table, predicate, page_size) ==
    QueryPages(table, "hold_status", "OnHold", "patron_id", predicate, page_size)

(* --------------------------- services ---------------------------------- *)
NoRec == [none |-> TRUE]

IdleTask ==
    [pc |-> "idle", op |-> "none", patron_id |-> "", book_id |-> "",
     patron |-> NoRec, rec |-> NoRec, result |-> NoResult]

CreateOps == {"checkout", "hold"}
CheckoutOps == {"checkout", "returned"}
HoldOps == {"hold", "cancel", "hold_checkout"}
Ops == CheckoutOps \cup HoldOps

\* checkout/bin/main.rs and hold/bin/main.rs are separate binaries, each
\* built by its factory with its own repository
Services == {"checkout", "hold"}

\* the mutating methods of CatalogServiceImpl
CatalogOps == {"add_book", "update_book", "remove_book"}

ServiceOps(s) ==
    IF s = "checkout" THEN CheckoutOps ELSE IF s = "hold" THEN HoldOps ELSE CatalogOps

\* page_size of the first-match queries in returned, cancel and checkout
FindFirstPageSize == 10

InFlight(o) == {t \in Tasks : task[t].op = o /\ task[t].pc # "idle"}

\* Uuid::new_v4(): an id no stored record and no entity under construction has
UsedIds(table, o) ==
    DOMAIN table \cup {task[t].rec[IF o = "checkout" THEN "checkout_id" ELSE "hold_id"] :
                          t \in {u \in InFlight(o) : task[u].rec # NoRec}}

NewId(table, o) ==
    CHOOSE n \in 1..(Cardinality(UsedIds(table, o)) + 1) :
        /\ n \notin UsedIds(table, o)
        /\ \A m \in 1..(n - 1) : m \in UsedIds(table, o)

Goto(t, pc) == task' = [task EXCEPT ![t].pc = pc]

\* the call returns: the task ends and leaves the caller the result of its
\* command
Return(t, result) ==
    task' = [task EXCEPT ![t] = [IdleTask EXCEPT !.op = task[t].op,
                                                !.patron_id = task[t].patron_id,
                                                !.book_id = task[t].book_id,
                                                !.result = result]]

\* An inbound command starts a service call as a new task.  The number of
\* records a run creates is bounded by not admitting further creating calls.
StartCall(t, o, p, b) ==
    /\ task[t].pc = "idle"
    /\ o \in ServiceOps(service)
    /\ o = "checkout" => Cardinality(DOMAIN checkouts) + Cardinality(InFlight(o)) < MaxCheckouts
    /\ o = "hold" => Cardinality(DOMAIN holds) + Cardinality(InFlight(o)) < MaxHolds
    /\ task' = [task EXCEPT ![t] = [IdleTask EXCEPT !.pc = "find_patron", !.op = o,
                                                   !.patron_id = p, !.book_id = b]]
    /\ UNCHANGED <<service, books, parties, checkouts, holds, events>>

\* a patron lookup that goes on with a patron without roles when the store
\* has none under the id
FindPatron_AbsentIsRegular(t) ==
    /\ task[t].pc = "find_patron"
    /\ \/ \E e \in TransportErrors : Return(t, from_sdk_error(e))
       \/ /\ task[t].patron_id \notin DOMAIN parties
          /\ task' = [task EXCEPT ![t].pc = "find_book",
                                  ![t].patron = PatronFromItem(
                                        PartyItem(task[t].patron_id, "L", {}))]
       \/ /\ task[t].patron_id \in DOMAIN parties
          /\ task' = [task EXCEPT ![t].pc = "find_book",
                                  ![t].patron = PatronFromItem(parties[task[t].patron_id])]
    /\ UNCHANGED <<service, books, parties, checkouts, holds, events>>

\* PatronServiceImpl::find_patron_by_id over DDBPartyRepository::get: the first
\* await of every checkout and hold service method
FindPatron(t) ==
    /\ task[t].pc = "find_patron"
    /\ \/ \E e \in TransportErrors : Return(t, from_sdk_error(e))
       \/ /\ task[t].patron_id \notin DOMAIN parties
          /\ Return(t, not_found)
       \/ /\ task[t].patron_id \in DOMAIN parties
          /\ task' = [task EXCEPT ![t].pc = "find_book",
                                  ![t].patron = PatronFromItem(parties[task[t].patron_id])]
    /\ UNCHANGED <<service, books, parties, checkouts, holds, events>>

\* a checkout admission that refuses only books taken out of the catalog
CheckoutValidate_DeletedOnly(patron, book) ==
    IF book.book_status = "Deleted" THEN validation("400")
    ELSE IF book.restricted /\ is_regular(patron) THEN validation("400")
    ELSE Ok

\* CheckoutServiceImpl::checkout between the book lookup and the create:
\* the availability and restriction checks
CheckoutValidate(patron, book) ==
    IF book.book_status # "Available" THEN validation("400")
    ELSE IF book.restricted /\ is_regular(patron) THEN validation("400")
    ELSE Ok

\* a hold admission that also refuses a book some patron already holds
HoldValidate_OneHoldPerBook(patron, book) ==
    IF book.book_status # "Available" THEN validation("400")
    ELSE IF book.restricted /\ is_regular(patron) THEN validation("400")
    ELSE IF \E h \in DOMAIN holds : /\ holds[h].book_id = book.book_id
                                     /\ holds[h].hold_status = "OnHold"
         THEN validation("400")
    ELSE Ok

\* HoldServiceImpl::hold between the book lookup and the create
HoldValidate(patron, book) ==
    IF book.book_status # "Available" THEN validation("400")
    ELSE IF book.restricted /\ is_regular(patron) THEN validation("400")
    ELSE Ok

\* CatalogServiceImpl::find_book_by_id over DDBBookRepository::get: the second
\* await; checkout and hold then validate and build the entity to create
FindBook(t) ==
    /\ task[t].pc = "find_book"
    /\ \/ \E e \in TransportErrors : Return(t, from_sdk_error(e))
       \/ /\ task[t].book_id \notin DOMAIN books
          /\ Return(t, not_found)
       \/ /\ task[t].book_id \in DOMAIN books
          /\ LET book == BookFromItem(books[task[t].book_id])
                 patron == task[t].patron
             IN CASE task[t].op = "checkout" ->
                        IF CheckoutValidate(patron, book) # Ok
                        THEN Return(t, CheckoutValidate(patron, book))
                        ELSE task' = [task EXCEPT ![t].pc = "create",
                                 ![t].rec = CheckoutFromPatronBook(
                                     NewId(checkouts, "checkout"), BranchId, patron, book)]
                  [] task[t].op = "hold" ->
                        IF HoldValidate(patron, book) # Ok
                        THEN Return(t, HoldValidate(patron, book))
                        ELSE task' = [task EXCEPT ![t].pc = "create",
                                 ![t].rec = HoldFromPatronBook(
                                     NewId(holds, "hold"), BranchId, patron, book)]
                  [] OTHER -> Goto(t, "query")
    /\ UNCHANGED <<service, books, parties, checkouts, holds, events>>

\* a checkout that also marks the book as checked out in the catalog
CheckoutCreate_MarksBook(t) ==
    /\ task[t].pc = "create" /\ task[t].op = "checkout"
    /\ LET r == CheckoutRepoCreate(checkouts, task[t].rec)
       IN /\ checkouts' = r.table
          /\ books' = IF r.result = Ok
                      THEN [books EXCEPT ![task[t].book_id].book_status = "CheckedOut"]
                      ELSE books
          /\ IF r.result = Ok THEN Goto(t, "publish") ELSE Return(t, r.result)
    /\ UNCHANGED <<service, parties, holds, events>>

\* CheckoutServiceImpl::checkout: checkout_repository.create(..).await?
CheckoutCreate(t) ==
    /\ task[t].pc = "create" /\ task[t].op = "checkout"
    /\ \/ /\ \E e \in TransportErrors : Return(t, from_sdk_error(e))
          /\ UNCHANGED checkouts
       \/ LET r == CheckoutRepoCreate(checkouts, task[t].rec)
          IN /\ checkouts' = r.table
             /\ IF r.result = Ok THEN Goto(t, "publish") ELSE Return(t, r.result)
    /\ UNCHANGED <<service, books, parties, holds, events>>

\* HoldServiceImpl::hold: hold_repository.create(..).await?
HoldCreate(t) ==
    /\ task[t].pc = "create" /\ task[t].op = "hold"
    /\ \/ /\ \E e \in TransportErrors : Return(t, from_sdk_error(e))
          /\ UNCHANGED holds
       \/ LET r == HoldRepoCreate(holds, task[t].rec)
          IN /\ holds' = r.table
             /\ IF r.result = Ok THEN Goto(t, "publish") ELSE Return(t, r.result)
    /\ UNCHANGED <<service, books, parties, checkouts, events>>

PairPredicate(t) ==
    [k \in {"patron_id", "book_id"} |-> IF k = "patron_id" THEN task[t].patron_id
                                             ELSE task[t].book_id]

\* a returned that sets the status and forgets returned_at
ReturnedQuery_StatusOnly(t) ==
    /\ task[t].pc = "query" /\ task[t].op = "returned"
    /\ \/ \E e \in TransportErrors : Return(t, from_sdk_error(e))
       \/ \E page \in CheckoutRepoQuery(checkouts, PairPredicate(t), FindFirstPageSize) :
            IF page = {} THEN Return(t, not_found)
            ELSE \E first \in page :
                    task' = [task EXCEPT ![t].pc = "update",
                        ![t].rec = [CheckoutFromItem(checkouts[first])
                                       EXCEPT !.checkout_status = "Returned"]]
    /\ UNCHANGED <<service, books, parties, checkouts, holds, events>>

\* CheckoutServiceImpl::find_first from returned, then the in-place mutation
ReturnedQuery(t) ==
    /\ task[t].pc = "query" /\ task[t].op = "returned"
    /\ \/ \E e \in TransportErrors : Return(t, from_sdk_error(e))
       \/ \E page \in CheckoutRepoQuery(checkouts, PairPredicate(t), FindFirstPageSize) :
            IF page = {} THEN Return(t, not_found)
            ELSE \E first \in page :
                    task' = [task EXCEPT ![t].pc = "update",
                        ![t].rec = [CheckoutFromItem(checkouts[first])
                                       EXCEPT !.checkout_status = "Returned",
                                              !.returned_at = "Some"]]
    /\ UNCHANGED <<service, books, parties, checkouts, holds, events>>

\* a returned that reads the record again and repeats the update when the
\* store refuses it
ReturnedUpdate_RetryOnConflict(t) ==
    /\ task[t].pc = "update" /\ task[t].op = "returned"
    /\ \/ /\ \E e \in TransportErrors : Return(t, from_sdk_error(e))
          /\ UNCHANGED checkouts
       \/ LET r == CheckoutRepoUpdate(checkouts, task[t].rec)
          IN /\ checkouts' = r.table
             /\ IF r.result = Ok THEN Goto(t, "publish") ELSE Goto(t, "query")
    /\ UNCHANGED <<service, books, parties, holds, events>>

\* CheckoutServiceImpl::returned: checkout_repository.update(&existing).await?
ReturnedUpdate(t) ==
    /\ task[t].pc = "update" /\ task[t].op = "returned"
    /\ \/ /\ \E e \in TransportErrors : Return(t, from_sdk_error(e))
          /\ UNCHANGED checkouts
       \/ LET r == CheckoutRepoUpdate(checkouts, task[t].rec)
          IN /\ checkouts' = r.table
             /\ IF r.result = Ok THEN Goto(t, "publish") ELSE Return(t, r.result)
    /\ UNCHANGED <<service, books, parties, holds, events>>

\* a cancel that stamps the marker of the checkout method
CancelQuery_WrongMarker(t) ==
    /\ task[t].pc = "query" /\ task[t].op = "cancel"
    /\ \/ \E e \in TransportErrors : Return(t, from_sdk_error(e))
       \/ \E page \in HoldRepoQuery(holds, PairPredicate(t), FindFirstPageSize) :
            IF page = {} THEN Return(t, not_found)
            ELSE \E first \in page :
                    task' = [task EXCEPT ![t].pc = "update",
                        ![t].rec = [HoldFromItem(holds[first])
                                       EXCEPT !.hold_status = "Canceled",
                                              !.checked_out_at = "Some"]]
    /\ UNCHANGED <<service, books, parties, checkouts, holds, events>>

\* HoldServiceImpl::cancel: the query and the mutation of the first record
CancelQuery(t) ==
    /\ task[t].pc = "query" /\ task[t].op = "cancel"
    /\ \/ \E e \in TransportErrors : Return(t, from_sdk_error(e))
       \/ \E page \in HoldRepoQuery(holds, PairPredicate(t), FindFirstPageSize) :
            IF page = {} THEN Return(t, not_found)
            ELSE \E first \in page :
                    task' = [task EXCEPT ![t].pc = "update",
                        ![t].rec = [HoldFromItem(holds[first])
                                       EXCEPT !.hold_status = "Canceled",
                                              !.canceled_at = "Some"]]
    /\ UNCHANGED <<service, books, parties, checkouts, holds, events>>

\* a hold checkout that stamps the marker of the cancel method
HoldCheckoutQuery_WrongMarker(t) ==
    /\ task[t].pc = "query" /\ task[t].op = "hold_checkout"
    /\ \/ \E e \in TransportErrors : Return(t, from_sdk_error(e))
       \/ \E page \in HoldRepoQuery(holds, PairPredicate(t), FindFirstPageSize) :
            IF page = {} THEN Return(t, not_found)
            ELSE \E first \in page :
                    task' = [task EXCEPT ![t].pc = "update",
                        ![t].rec = [HoldFromItem(holds[first])
                                       EXCEPT !.hold_status = "CheckedOut",
                                              !.canceled_at = "Some"]]
    /\ UNCHANGED <<service, books, parties, checkouts, holds, events>>

\* HoldServiceImpl::checkout: the query and the mutation of the first record
HoldCheckoutQuery(t) ==
    /\ task[t].pc = "query" /\ task[t].op = "hold_checkout"
    /\ \/ \E e \in TransportErrors : Return(t, from_sdk_error(e))
       \/ \E page \in HoldRepoQuery(holds, PairPredicate(t), FindFirstPageSize) :
            IF page = {} THEN Return(t, not_found)
            ELSE \E first \in page :
                    task' = [task EXCEPT ![t].pc = "update",
                        ![t].rec = [HoldFromItem(holds[first])
                                       EXCEPT !.hold_status = "CheckedOut",
                                              !.checked_out_at = "Some"]]
    /\ UNCHANGED <<service, books, parties, checkouts, holds, events>>

\* HoldServiceImpl::cancel / checkout: hold_repository.update(first).await?
HoldUpdate(t) ==
    /\ task[t].pc = "update" /\ task[t].op \in {"cancel", "hold_checkout"}
    /\ \/ /\ \E e \in TransportErrors : Return(t, from_sdk_error(e))
          /\ UNCHANGED holds
       \/ LET r == HoldRepoUpdate(holds, task[t].rec)
          IN /\ holds' = r.table
             /\ IF r.result = Ok THEN Goto(t, "publish") ELSE Return(t, r.result)
    /\ UNCHANGED <<service, books, parties, checkouts, events>>

\* DomainEvent::build; event_id is a fresh uuid, so the feed is a bag
DomainEvent(name, group, key, kind) ==
    [name |-> name, group |-> group, key |-> key, kind |-> kind]

\* an event builder that files every catalog change as an addition
EventOf_AlwaysAdded(o, rec) ==
    CASE o = "checkout" -> DomainEvent("book_checkout", "checkout", rec.checkout_id, "Added")
      [] o = "returned" -> DomainEvent("book_returned", "checkout", rec.checkout_id, "Deleted")
      [] o = "hold" -> DomainEvent("book_hold", "book_hold", rec.hold_id, "Added")
      [] o = "cancel" ->
            DomainEvent("book_hold_cancel", "book_hold_cancel", rec.hold_id, "Deleted")
      [] o = "hold_checkout" ->
            DomainEvent("book_hold_checkout", "book_hold_checkout", rec.hold_id, "Deleted")
      [] o \in {"add_book", "update_book", "remove_book"} ->
            DomainEvent("books", "books", rec.book_id, "Added")

\* the event each service method builds after its write
EventOf(o, rec) ==
    CASE o = "checkout" -> DomainEvent("book_checkout", "checkout", rec.checkout_id, "Added")
      [] o = "returned" -> DomainEvent("book_returned", "checkout", rec.checkout_id, "Deleted")
      [] o = "hold" -> DomainEvent("book_hold", "book_hold", rec.hold_id, "Added")
      [] o = "cancel" ->
            DomainEvent("book_hold_cancel", "book_hold_cancel", rec.hold_id, "Deleted")
      [] o = "hold_checkout" ->
            DomainEvent("book_hold_checkout", "book_hold_checkout", rec.hold_id, "Deleted")
      [] o = "add_book" -> DomainEvent("books", "books", rec.book_id, "Added")
      [] o = "update_book" -> DomainEvent("books", "books", rec.book_id, "Updated")
      [] o = "remove_book" -> DomainEvent("books", "books", rec.book_id, "Deleted")

\* a publisher that delivers the event and reports a failure all the same
Publish_DeliversOnFailure(t) ==
    /\ task[t].pc = "publish"
    /\ events' = events (+) SetToBag({EventOf(task[t].op, task[t].rec)})
    /\ \/ \E err \in PublishErrors : Return(t, err)
       \/ Return(t, Ok)
    /\ UNCHANGED <<service, books, parties, checkouts, holds>>

\* events_publisher.publish(..).await?, then Ok(dto)
Publish(t) ==
    /\ task[t].pc = "publish"
    /\ \/ /\ \E err \in PublishErrors : Return(t, err)
          /\ UNCHANGED events
       \/ /\ events' = events (+) SetToBag({EventOf(task[t].op, task[t].rec)})
          /\ Return(t, Ok)
    /\ UNCHANGED <<service, books, parties, checkouts, holds>>

(* ------------------------ specifications ------------------------------- *)
\* The library a service starts from: the patron p1, added without roles, and
\* the open book b1; no checkouts, no holds, an empty event feed.
Init ==
    /\ service \in Services
    /\ books = ("b1" :> BookItem("b1", "Available", FALSE))
    /\ parties = ("p1" :> PartyItem("p1", "L", {}))
    /\ checkouts = << >>
    /\ holds = << >>
    /\ events = EmptyBag
    /\ task = [t \in Tasks |-> IdleTask]

Step(t) ==
    \/ FindPatron(t)
    \/ FindBook(t)
    \/ CheckoutCreate(t)
    \/ ReturnedQuery(t)
    \/ ReturnedUpdate(t)
    \/ HoldCreate(t)
    \/ CancelQuery(t)
    \/ HoldCheckoutQuery(t)
    \/ HoldUpdate(t)
    \/ Publish(t)

\* concurrent commands of two clients for the patron and the book of the library
Next ==
    \E t \in Tasks :
        \/ \E o \in Ops, p \in DOMAIN parties, b \in DOMAIN books :
              StartCall(t, o, p, b)
        \/ Step(t)

Spec == Init /\ [][Next]_vars

\* One client, one command at a time, over a library with the patron p1 (no
\* roles), the administrator p2 (roles written by update_patron) and the
\* restricted books b1 and b2; commands may name a patron or a book the
\* library does not have.
InitSeq ==
    /\ service \in Services
    /\ books = ("b1" :> BookItem("b1", "Available", TRUE))
                 @@ ("b2" :> BookItem("b2", "Available", TRUE))
    /\ parties = ("p1" :> PartyItem("p1", "L", {}))
                  @@ ("p2" :> PartyItem("p2", "S", {"Admin"}))
    /\ checkouts = << >>
    /\ holds = << >>
    /\ events = EmptyBag
    /\ task = [t \in Tasks |-> IdleTask]

NextSeq ==
    \E t \in {"t1"} :
        \/ \E o \in Ops, p \in PatronIds \cup {NoPatron}, b \in BookIds \cup {NoBook} :
              StartCall(t, o, p, b)
        \/ Step(t)

SpecSeq == InitSeq /\ [][NextSeq]_vars

\* The admission rules of checkout and hold over every patron and book the
\* stores can hold: patron p1 with any role set, as written by add_patron
\* (a list attribute) or by update_patron (a JSON string), and book b1 with
\* any status, restricted or not.
InitRules ==
    /\ service \in Services
    /\ \E status \in BookStatus, restricted \in BOOLEAN :
          books = ("b1" :> BookItem("b1", status, restricted))
    /\ \E form \in {"L", "S"}, roles \in SUBSET Role :
          parties = ("p1" :> PartyItem("p1", form, roles))
    /\ checkouts = << >>
    /\ holds = << >>
    /\ events = EmptyBag
    /\ task = [t \in Tasks |-> IdleTask]

NextRules ==
    \E t \in {"t1"} :
        \/ \E o \in CreateOps, p \in {"p1", NoPatron}, b \in {"b1", NoBook} :
              StartCall(t, o, p, b)
        \/ FindPatron(t)
        \/ FindBook(t)
        \/ CheckoutCreate(t)
        \/ HoldCreate(t)
        \/ Publish(t)

SpecRules == InitRules /\ [][NextRules]_vars

(* ------------------- repository-level runs ----------------------------- *)
\* Callers of one repository (in `service`: the table it serves) that get or
\* build an entity and pass it to update, over a store that answers.
MaxVersion == 2

Repositories == {"books", "parties", "checkout", "hold"}

IdField(repo) ==
    CASE repo = "books" -> "book_id"
      [] repo = "parties" -> "party_id"
      [] repo = "checkout" -> "checkout_id"
      [] repo = "hold" -> "hold_id"

Table(repo) ==
    CASE repo = "books" -> books
      [] repo = "parties" -> parties
      [] repo = "checkout" -> checkouts
      [] repo = "hold" -> holds

\* Repository::get on a present id
RepoEntity(repo, id) ==
    CASE repo = "books" -> BookEntityFromItem(books[id])
      [] repo = "parties" -> PartyEntityFromItem(parties[id])
      [] repo = "checkout" -> CheckoutFromItem(checkouts[id])
      [] repo = "hold" -> HoldFromItem(holds[id])

\* Repository::update of the repository under run
RepoUpdateReply(repo, e) ==
    CASE repo = "books" -> BookRepoUpdate(books, e)
      [] repo = "parties" -> PartyRepoUpdate(parties, e)
      [] repo = "checkout" -> CheckoutRepoUpdate(checkouts, e)
      [] repo = "hold" -> HoldRepoUpdate(holds, e)

\* the ids callers use: one stored record and one id that never was created
RepoIds(repo) ==
    CASE repo = "books" -> {"b1", NoBook}
      [] repo = "parties" -> {"p1", NoPatron}
      [] repo = "checkout" -> {1, 2}
      [] repo = "hold" -> {1, 2}

\* the entities a caller may build itself instead of reading them
BuiltEntities(repo) ==
    CASE repo = "books" ->
            {[BookEntityFromItem(BookItem(id, st, FALSE)) EXCEPT !.version = v] :
                id \in RepoIds(repo), st \in {"CheckedOut", "OnHold"}, v \in 0..MaxVersion}
      [] repo = "parties" ->
            {[PartyEntityFromItem(PartyItem(id, "S", r)) EXCEPT !.version = v] :
                id \in RepoIds(repo), r \in {{"Admin"}, {"Child"}}, v \in 0..MaxVersion}
      [] repo = "checkout" ->
            {[CheckoutFromPatronBook(id, BranchId, [patron_id |-> "p1"], [book_id |-> "b1"])
                EXCEPT !.version = v, !.checkout_status = st] :
                id \in RepoIds(repo), st \in CheckoutStatus, v \in 0..MaxVersion}
      [] repo = "hold" ->
            {[HoldFromPatronBook(id, BranchId, [patron_id |-> "p1"], [book_id |-> "b1"])
                EXCEPT !.version = v, !.hold_status = st] :
                id \in RepoIds(repo), st \in {"Waiting", "Canceled"}, v \in 0..MaxVersion}

Caller(pc, rec, result) == [pc |-> pc, rec |-> rec, result |-> result]

\* Repository::get(id): the caller now holds the stored entity
RepoGet(t, id) ==
    /\ id \in DOMAIN Table(service)
    /\ task' = [task EXCEPT ![t] = Caller("holding", RepoEntity(service, id), NoResult)]
    /\ UNCHANGED <<service, books, parties, checkouts, holds, events>>

\* the caller makes up an entity: any id, any version
RepoBuild(t, e) ==
    /\ task' = [task EXCEPT ![t] = Caller("holding", e, NoResult)]
    /\ UNCHANGED <<service, books, parties, checkouts, holds, events>>

\* Repository::update(entity) with the entity the caller holds
RepoUpdate(t) ==
    /\ task[t].pc = "holding"
    /\ task[t].rec.version < MaxVersion
    /\ LET r == RepoUpdateReply(service, task[t].rec)
       IN /\ task' = [task EXCEPT ![t] = Caller("updated", task[t].rec, r.result)]
          /\ books' = IF service = "books" THEN r.table ELSE books
          /\ parties' = IF service = "parties" THEN r.table ELSE parties
          /\ checkouts' = IF service = "checkout" THEN r.table ELSE checkouts
          /\ holds' = IF service = "hold" THEN r.table ELSE holds
    /\ UNCHANGED <<service, events>>

InitUpdate ==
    /\ service \in Repositories
    /\ books = ("b1" :> BookItem("b1", "Available", FALSE))
    /\ parties = ("p1" :> PartyItem("p1", "L", {}))
    /\ checkouts = (1 :> CheckoutItem(
            CheckoutFromPatronBook(1, BranchId, [patron_id |-> "p1"], [book_id |-> "b1"])))
    /\ holds = (1 :> HoldItem(
            HoldFromPatronBook(1, BranchId, [patron_id |-> "p1"], [book_id |-> "b1"])))
    /\ events = EmptyBag
    /\ task = [t \in Tasks |-> Caller("idle", NoRec, NoResult)]

NextUpdate ==
    \E t \in Tasks :
        \/ \E id \in RepoIds(service) : RepoGet(t, id)
        \/ \E e \in BuiltEntities(service) : RepoBuild(t, e)
        \/ RepoUpdate(t)

SpecUpdate == InitUpdate /\ [][NextUpdate]_vars

(* ----------------------------- C1 -------------------------------------- *)
StoredVersionIs(repo, e) ==
    /\ e[IdField(repo)] \in DOMAIN Table(repo)
    /\ Table(repo)[e[IdField(repo)]].version = e.version

\* C1 (step part): in every repository, an update whose entity.version is not
\* the stored version (or whose record is absent) is rejected and leaves the
\* table unchanged; an update at the stored version succeeds and the stored
\* version becomes entity.version + 1.
C1_UpdateStep ==
    \A t \in Tasks :
        (task[t].pc = "holding" /\ task'[t].pc = "updated") =>
            LET e == task[t].rec
                id == e[IdField(service)]
            IN IF StoredVersionIs(service, e)
               THEN /\ task'[t].result = Ok
                    /\ Table(service)'[id].version = e.version + 1
               ELSE /\ task'[t].result # Ok
                    /\ Table(service)' = Table(service)

\* C1 (consequence): of two updates issued with the same expected version of
\* one record, at most one succeeds.
C1_AtMostOneWinner ==
    \A t, u \in Tasks :
        (/\ t # u
         /\ task[t].pc = "updated" /\ task[u].pc = "updated"
         /\ task[t].rec[IdField(service)] = task[u].rec[IdField(service)]
         /\ task[t].rec.version = task[u].rec.version)
            => ~(task[t].result = Ok /\ task[u].result = Ok)

\* C1: versioned update in every repository, under any interleaving of
\* update calls
C1_VersionedUpdate == [][C1_UpdateStep]_vars /\ []C1_AtMostOneWinner

\* C1 witness: two callers held the same version of one record, one update
\* won and the other was rejected
C1_Witness ==
    \E t, u \in Tasks :
        /\ task[t].pc = "updated" /\ task[u].pc = "updated"
        /\ task[t].rec[IdField(service)] = task[u].rec[IdField(service)]
        /\ task[t].rec.version = task[u].rec.version
        /\ task[t].result = Ok /\ task[u].result.kind = "AccessDenied"
        /\ Table(service)[task[t].rec[IdField(service)]].version = task[t].rec.version + 1



(* ----------------------------- C2 -------------------------------------- *)
\* a stored date attribute that holds a date
DateIsSet(attr) == attr \in {"Naive", "Rfc3339"}

\* the two HoldService methods that end a hold
TerminalHoldOps == {"cancel", "hold_checkout"}

\* calls whose update of hold h the store accepted and that have not returned
HoldUpdatesAccepted(h) ==
    {t \in Tasks : /\ task[t].pc = "publish"
                   /\ task[t].op \in TerminalHoldOps
                   /\ task[t].rec.hold_id = h}

\* events in the feed that report the end of hold h
TerminalHoldEvents(h) ==
    CopiesIn(EventOf("cancel", [hold_id |-> h]), events)
        + CopiesIn(EventOf("hold_checkout", [hold_id |-> h]), events)

\* C2 (state part): no stored hold has both canceled_at and checked_out_at
\* set, and for no hold have two terminal updates been accepted.
C2_State ==
    \A h \in DOMAIN holds :
        /\ ~(DateIsSet(holds[h].canceled_at) /\ DateIsSet(holds[h].checked_out_at))
        /\ ~(parse_date_attribute(holds[h].canceled_at) = "Some"
             /\ parse_date_attribute(holds[h].checked_out_at) = "Some")
        /\ Cardinality(HoldUpdatesAccepted(h)) + TerminalHoldEvents(h) <= 1

\* C2 (step part): a cancel or hold-checkout update is accepted only on a hold
\* stored OnHold at the version the call read, it raises the stored version,
\* and every other call that read the hold at the same version can no longer
\* have its update accepted.
C2_UpdateStep ==
    \A t \in Tasks :
        (/\ task[t].pc = "update" /\ task[t].op \in TerminalHoldOps
         /\ task'[t].pc = "publish") =>
            LET h == task[t].rec.hold_id
            IN /\ holds[h].hold_status = "OnHold"
               /\ holds[h].version = task[t].rec.version
               /\ holds'[h].version = holds[h].version + 1
               /\ \A u \in Tasks \ {t} :
                     (/\ task[u].pc = "update"
                      /\ task[u].rec.hold_id = h
                      /\ task[u].rec.version = task[t].rec.version)
                        => ~VersionMatches(holds', h, task'[u].rec.version)

\* C2: under any interleaving of hold, cancel and hold-checkout calls no
\* stored hold carries both terminal markers, and of a cancel and a
\* hold-checkout that read the same OnHold hold at the same version at most
\* one succeeds.
C2_TerminalMarkersExclusive == []C2_State /\ [][C2_UpdateStep]_vars

\* C2 witness: a cancel and a hold-checkout read hold h at the same version;
\* the cancel's update was accepted, the hold is stored Canceled, and the
\* hold-checkout still carries the version it read
C2_Witness ==
    \E t, u \in Tasks, h \in DOMAIN holds :
        /\ task[t].pc = "publish" /\ task[t].op = "cancel" /\ task[t].rec.hold_id = h
        /\ task[u].pc = "update" /\ task[u].op = "hold_checkout"
        /\ task[u].rec.hold_id = h
        /\ task[u].rec.version = task[t].rec.version
        /\ holds[h].hold_status = "Canceled"
        /\ DateIsSet(holds[h].canceled_at) /\ ~DateIsSet(holds[h].checked_out_at)

(* ----------------------------- C3 -------------------------------------- *)
\* calls whose update of checkout c the store accepted and that have not
\* returned
ReturnsAccepted(c) ==
    {t \in Tasks : /\ task[t].pc = "publish"
                   /\ task[t].op = "returned"
                   /\ task[t].rec.checkout_id = c}

ReturnedEvents(c) == CopiesIn(EventOf("returned", [checkout_id |-> c]), events)

\* C3 (step part): a stored checkout with status Returned is in the table,
\* unchanged, after every step.
C3_ReturnedFrozen ==
    \A c \in DOMAIN checkouts :
        checkouts[c].checkout_status = "Returned" =>
            c \in DOMAIN checkouts' /\ checkouts'[c] = checkouts[c]

\* C3 (state part): for each checkout at most one returned call had its update
\* accepted, and the feed holds at most one book_returned event for it.
C3_AtMostOneReturn ==
    \A c \in DOMAIN checkouts :
        /\ Cardinality(ReturnsAccepted(c)) + ReturnedEvents(c) <= 1
        /\ (ReturnsAccepted(c) # {} \/ ReturnedEvents(c) > 0)
              => checkouts[c].checkout_status = "Returned"

\* C3: once Returned a checkout is never modified or deleted by a
\* CheckoutService call, under any interleaving; at most one returned call
\* succeeds per checkout and at most one book_returned event is published.
C3_ReturnedIsFinal == [][C3_ReturnedFrozen]_vars /\ []C3_AtMostOneReturn

\* C3 witness: checkout c is Returned with its one event in the feed, and a
\* returned call that had read c before was rejected by the store
C3_Witness ==
    \E c \in DOMAIN checkouts, t \in Tasks :
        /\ checkouts[c].checkout_status = "Returned"
        /\ ReturnedEvents(c) = 1
        /\ task[t].pc = "idle" /\ task[t].op = "returned"
        /\ task[t].result.kind = "AccessDenied"


(* ----------------------------- C4 -------------------------------------- *)
\* the stored holds of a (patron, book) pair
HoldsOf(p, b) == {h \in DOMAIN holds : holds[h].patron_id = p /\ holds[h].book_id = b}

\* task t takes the step that ends its wait at pc
Leaves(t, pc) == task[t].pc = pc /\ task'[t].pc # pc

\* the call of task t ends in this step with NotFound, or with the error of
\* a store that did not answer
EndsNotFound(t) ==
    /\ task'[t].pc = "idle"
    /\ task'[t].result \in {not_found} \cup TransportResults

\* C4 (record part): a stored hold whose status is Canceled or CheckedOut is
\* in the table, unchanged, after every step.
C4_TerminalFrozen ==
    \A h \in DOMAIN holds :
        holds[h].hold_status \in {"Canceled", "CheckedOut"} =>
            h \in DOMAIN holds' /\ holds'[h] = holds[h]

\* C4 (call part): a cancel or hold-checkout that queries a pair which has a
\* terminal hold and no OnHold hold fails with NotFound and changes nothing.
C4_QueryStep ==
    \A t \in Tasks :
        (/\ Leaves(t, "query") /\ task[t].op \in TerminalHoldOps
         /\ HoldsOf(task[t].patron_id, task[t].book_id) # {}
         /\ \A h \in HoldsOf(task[t].patron_id, task[t].book_id) :
                holds[h].hold_status \in {"Canceled", "CheckedOut"})
            => EndsNotFound(t) /\ UNCHANGED <<holds, events>>

\* C4: a hold leaves OnHold at most once; no HoldService call changes a
\* Canceled or CheckedOut hold, and a further cancel or hold-checkout for a
\* pair without an OnHold hold fails with NotFound.
C4_HoldLeavesOnHoldOnce == [][C4_TerminalFrozen /\ C4_QueryStep]_vars

\* C4 witness: one client alone placed a hold, ended it, and asked to end it
\* again; that last command came back NotFound and the terminal hold h, the
\* only hold of the pair, is as its one accepted update left it
C4_Witness ==
    \E t \in Tasks, h \in DOMAIN holds :
        /\ \A u \in Tasks \ {t} : task[u] = IdleTask
        /\ task[t].pc = "idle" /\ task[t].op \in TerminalHoldOps
        /\ task[t].result = not_found
        /\ HoldsOf(task[t].patron_id, task[t].book_id) = {h}
        /\ holds[h].hold_status \in {"Canceled", "CheckedOut"}
        /\ holds[h].version = 1
        /\ TerminalHoldEvents(h) = 1

(* ----------------------------- C5 -------------------------------------- *)
\* the OnHold holds stored for a book
LiveHoldsOn(b) ==
    {h \in DOMAIN holds : holds[h].book_id = b /\ holds[h].hold_status = "OnHold"}

\* C5 (step part): while a book already has an OnHold hold, a hold call for
\* it still passes the availability check and its create still stores a new
\* OnHold row, unless the store does not answer; no step changes a book.
C5_HoldStep ==
    /\ books' = books
    /\ \A t \in Tasks :
        (task[t].op = "hold" /\ LiveHoldsOn(task[t].book_id) # {}) =>
            /\ Leaves(t, "find_book") =>
                  \/ task'[t].pc = "create"
                  \/ task'[t].pc = "idle" /\ task'[t].result \in TransportResults
            /\ Leaves(t, "create") =>
                  \/ /\ task'[t].pc = "publish"
                     /\ task[t].rec.hold_id \notin DOMAIN holds
                     /\ task[t].rec.hold_id \in LiveHoldsOn(task[t].book_id)'
                     /\ LiveHoldsOn(task[t].book_id) \subseteq LiveHoldsOn(task[t].book_id)'
                  \/ task'[t].pc = "idle" /\ task'[t].result \in TransportResults

\* C5: no step of HoldService prevents a second OnHold hold on a book that
\* already has one, whether the calls are concurrent or sequential, since
\* Book.status is never changed.
C5_NothingPreventsSecondHold == [][C5_HoldStep]_vars

\* C5 witness: two concurrent hold calls for the same book both passed the
\* availability check and both created their row: two OnHold rows for b1
C5_Witness ==
    \E t, u \in Tasks :
        /\ t # u
        /\ task[t].pc = "publish" /\ task[t].op = "hold"
        /\ task[u].pc = "publish" /\ task[u].op = "hold"
        /\ task[t].book_id = task[u].book_id
        /\ task[t].rec.hold_id # task[u].rec.hold_id
        /\ {task[t].rec.hold_id, task[u].rec.hold_id} \subseteq LiveHoldsOn(task[t].book_id)
        /\ books[task[t].book_id].book_status = "Available"


(* ----------------------------- C6 -------------------------------------- *)
\* C6 (step part): a checkout or hold that found its patron and finds its book
\* with a status other than Available ends there with Validation, reason
\* "400" (or with the error of a store that did not answer); the call creates
\* no record and publishes no event.
C6_ValidateStep ==
    \A t \in Tasks :
        (/\ Leaves(t, "find_book") /\ task[t].op \in CreateOps
         /\ task[t].book_id \in DOMAIN books
         /\ books[task[t].book_id].book_status
                \in {"CheckedOut", "OnHold", "Deleted", "Unknown"})
            => /\ task'[t].pc = "idle"
               /\ task'[t].result \in {validation("400")} \cup TransportResults
               /\ UNCHANGED <<checkouts, holds, events>>

\* C6: checkout and hold for an existing patron and an existing book whose
\* status is CheckedOut, OnHold, Deleted or Unknown fail with Validation
\* (reason "400"), create no record and publish no event.
C6_UnavailableBookRejected ==
    /\ [][C6_ValidateStep]_vars
    /\ [](books["b1"].book_status # "Available"
            => checkouts = << >> /\ holds = << >> /\ events = EmptyBag)

\* C6 witness: a call for the existing patron and the existing OnHold book
\* returned Validation "400"; nothing was stored or published
C6_Witness ==
    \E t \in Tasks :
        /\ task[t].pc = "idle" /\ task[t].result = validation("400")
        /\ task[t].op \in CreateOps
        /\ task[t].patron_id \in DOMAIN parties /\ task[t].book_id = "b1"
        /\ books["b1"].book_status = "OnHold" /\ ~books["b1"].restricted
        /\ checkouts = << >> /\ holds = << >> /\ events = EmptyBag

(* ----------------------------- C7 -------------------------------------- *)
\* the role set a patron record was stored with
StoredRoles(p) == parties[p].group_roles.roles

\* C7 as claimed, on the step that decides admission for an Available book:
\* restricted and roles empty or {Regular} => Validation; restricted and a
\* role among Admin, Child, Employee, Librarian => admitted; not restricted
\* => admitted for every role set.
C7_AdmissionStep ==
    \A t \in Tasks :
        (/\ Leaves(t, "find_book") /\ task[t].op \in CreateOps
         /\ task[t].book_id \in DOMAIN books
         /\ books[task[t].book_id].book_status = "Available"
         /\ task'[t].result \notin TransportResults)
            => LET roles == StoredRoles(task[t].patron_id)
                   restricted == books[task[t].book_id].restricted
               IN IF restricted /\ roles \subseteq {"Regular"}
                  THEN task'[t].pc = "idle" /\ task'[t].result = validation("400")
                  ELSE task'[t].pc = "create"

\* C7: for a restricted Available book checkout and hold fail with Validation
\* when the patron's role set is empty or {Regular} and are admitted for any
\* role set containing Admin, Child, Employee or Librarian; for a
\* non-restricted Available book they are admitted for every role set.
C7_RestrictedNeedsRole == [][C7_AdmissionStep]_vars


(* ----------------------------- C8 -------------------------------------- *)
\* the stored checkouts of a (patron, book) pair
CheckoutsOf(p, b) ==
    {c \in DOMAIN checkouts : checkouts[c].patron_id = p /\ checkouts[c].book_id = b}

\* C8 (step part): a returned whose pair has no checkout record, and a cancel
\* or hold-checkout whose pair has no hold record, ends at its query with
\* NotFound (or with the error of a store that did not answer) and leaves
\* every table and the event feed unchanged.
C8_QueryStep ==
    \A t \in Tasks :
        (/\ Leaves(t, "query")
         /\ \/ /\ task[t].op = "returned"
               /\ CheckoutsOf(task[t].patron_id, task[t].book_id) = {}
            \/ /\ task[t].op \in TerminalHoldOps
               /\ HoldsOf(task[t].patron_id, task[t].book_id) = {})
            => /\ EndsNotFound(t)
               /\ UNCHANGED <<books, parties, checkouts, holds, events>>

\* C8: for an existing patron and book, returned fails with NotFound when the
\* pair has no Checkout record, and cancel and hold-checkout fail with
\* NotFound when the pair has no Hold; nothing is written or published.
C8_NothingToEnd == [][C8_QueryStep]_vars

\* C8 witness: the last command, a returned, cancel or hold-checkout for an
\* existing patron and book, came back NotFound; its pair has no record, the
\* two records of other pairs are as created and the feed holds their two
\* creation events only
C8_Witness ==
    \E t \in Tasks :
        /\ task[t].pc = "idle" /\ task[t].result = not_found
        /\ task[t].op \in {"returned"} \cup TerminalHoldOps
        /\ task[t].patron_id \in DOMAIN parties /\ task[t].book_id \in DOMAIN books
        /\ CheckoutsOf(task[t].patron_id, task[t].book_id) = {}
        /\ HoldsOf(task[t].patron_id, task[t].book_id) = {}
        /\ Cardinality(DOMAIN checkouts) + Cardinality(DOMAIN holds) = 2
        /\ \A c \in DOMAIN checkouts : /\ checkouts[c].checkout_status = "CheckedOut"
                                        /\ checkouts[c].version = 0
        /\ \A h \in DOMAIN holds : holds[h].hold_status = "OnHold" /\ holds[h].version = 0
        /\ BagCardinality(events) = 2

(* ----------------------------- C9 -------------------------------------- *)
\* the checkout call that created c returned Ok (its event is in the feed)
CheckoutSucceeded(c) == CopiesIn(EventOf("checkout", [checkout_id |-> c]), events) > 0

\* C9 (state part): a checkout whose book_returned event is in the feed, that
\* is, for which a returned call succeeded, is stored Returned with
\* returned_at holding a date that reads back.
C9_ReturnedRecord ==
    \A c \in DOMAIN checkouts :
        ReturnedEvents(c) > 0 =>
            /\ checkouts[c].checkout_status = "Returned"
            /\ DateIsSet(checkouts[c].returned_at)
            /\ CheckoutFromItem(checkouts[c]).returned_at = "Some"

\* C9 (step part): when a returned call for a pair returns Ok and the pair
\* has one checkout record, created by a successful checkout, that record is
\* the one stored Returned with returned_at set.
C9_ReturnStep ==
    \A t \in Tasks :
        (/\ Leaves(t, "publish") /\ task[t].op = "returned"
         /\ task'[t].result = Ok)
            => \A c \in CheckoutsOf(task[t].patron_id, task[t].book_id) :
                  (CheckoutsOf(task[t].patron_id, task[t].book_id) = {c}
                   /\ CheckoutSucceeded(c))
                    => /\ task[t].rec.checkout_id = c
                       /\ checkouts'[c].checkout_status = "Returned"
                       /\ CheckoutFromItem(checkouts'[c]).returned_at = "Some"
                       /\ ReturnedEvents(c)' = 1

\* C9: after a successful checkout(p, b) followed by a successful
\* returned(p, b), with no other checkout for the pair, the stored Checkout
\* has status Returned and a non-null returned_at.
C9_CheckoutThenReturned == []C9_ReturnedRecord /\ [][C9_ReturnStep]_vars

\* C9 witness: checkout c is the only record of its pair; its checkout and its
\* returned both succeeded
C9_Witness ==
    \E c \in DOMAIN checkouts :
        /\ CheckoutsOf(checkouts[c].patron_id, checkouts[c].book_id) = {c}
        /\ CheckoutSucceeded(c) /\ ReturnedEvents(c) = 1
        /\ checkouts[c].checkout_status = "Returned"
        /\ CheckoutFromItem(checkouts[c]).returned_at = "Some"

(* ----------------------------- C10 ------------------------------------- *)
HoldSucceeded(h) == CopiesIn(EventOf("hold", [hold_id |-> h]), events) > 0

CancelEvents(h) == CopiesIn(EventOf("cancel", [hold_id |-> h]), events)

\* C10 (state part): a hold whose book_hold_cancel event is in the feed, that
\* is, for which a cancel succeeded, is stored Canceled with canceled_at set
\* and checked_out_at without a date.
C10_CanceledRecord ==
    \A h \in DOMAIN holds :
        CancelEvents(h) > 0 =>
            /\ holds[h].hold_status = "Canceled"
            /\ DateIsSet(holds[h].canceled_at)
            /\ HoldFromItem(holds[h]).canceled_at = "Some"
            /\ ~DateIsSet(holds[h].checked_out_at)
            /\ HoldFromItem(holds[h]).checked_out_at = "None"

\* C10 (step part): when a cancel for a pair returns Ok and the pair has one
\* hold, created by a successful hold, that record is the one stored Canceled.
C10_CancelStep ==
    \A t \in Tasks :
        (/\ Leaves(t, "publish") /\ task[t].op = "cancel"
         /\ task'[t].result = Ok)
            => \A h \in HoldsOf(task[t].patron_id, task[t].book_id) :
                  (HoldsOf(task[t].patron_id, task[t].book_id) = {h}
                   /\ HoldSucceeded(h))
                    => /\ task[t].rec.hold_id = h
                       /\ holds'[h].hold_status = "Canceled"
                       /\ HoldFromItem(holds'[h]).canceled_at = "Some"
                       /\ HoldFromItem(holds'[h]).checked_out_at = "None"
                       /\ CancelEvents(h)' = 1

\* C10: after a successful hold(p, b) followed by a successful cancel(p, b),
\* with no other hold for the pair, the stored Hold has status Canceled,
\* canceled_at set and checked_out_at still null.
C10_HoldThenCancel == []C10_CanceledRecord /\ [][C10_CancelStep]_vars

\* C10 witness: hold h is the only hold of its pair; its hold and its cancel
\* both succeeded
C10_Witness ==
    \E h \in DOMAIN holds :
        /\ HoldsOf(holds[h].patron_id, holds[h].book_id) = {h}
        /\ HoldSucceeded(h) /\ CancelEvents(h) = 1
        /\ holds[h].hold_status = "Canceled"
        /\ HoldFromItem(holds[h]).canceled_at = "Some"
        /\ HoldFromItem(holds[h]).checked_out_at = "None"


(* ----------------------------- C11 ------------------------------------- *)
HoldCheckoutEvents(h) == CopiesIn(EventOf("hold_checkout", [hold_id |-> h]), events)

\* C11 (state part): a hold whose book_hold_checkout event is in the feed,
\* that is, for which a hold checkout succeeded, is stored CheckedOut with
\* checked_out_at set and canceled_at without a date.
C11_CheckedOutRecord ==
    \A h \in DOMAIN holds :
        HoldCheckoutEvents(h) > 0 =>
            /\ holds[h].hold_status = "CheckedOut"
            /\ DateIsSet(holds[h].checked_out_at)
            /\ HoldFromItem(holds[h]).checked_out_at = "Some"
            /\ ~DateIsSet(holds[h].canceled_at)
            /\ HoldFromItem(holds[h]).canceled_at = "None"

\* C11 (step part): when a hold checkout for a pair returns Ok and the pair
\* has one hold, created by a successful hold, that record is the one stored
\* CheckedOut.
C11_HoldCheckoutStep ==
    \A t \in Tasks :
        (/\ Leaves(t, "publish") /\ task[t].op = "hold_checkout"
         /\ task'[t].result = Ok)
            => \A h \in HoldsOf(task[t].patron_id, task[t].book_id) :
                  (HoldsOf(task[t].patron_id, task[t].book_id) = {h}
                   /\ HoldSucceeded(h))
                    => /\ task[t].rec.hold_id = h
                       /\ holds'[h].hold_status = "CheckedOut"
                       /\ HoldFromItem(holds'[h]).checked_out_at = "Some"
                       /\ HoldFromItem(holds'[h]).canceled_at = "None"
                       /\ HoldCheckoutEvents(h)' = 1

\* C11: after a successful hold(p, b) followed by a successful
\* HoldService.checkout(p, b), with no other hold for the pair, the stored
\* Hold has status CheckedOut, checked_out_at set and canceled_at still null.
C11_HoldThenCheckout == []C11_CheckedOutRecord /\ [][C11_HoldCheckoutStep]_vars

\* C11 witness: hold h is the only hold of its pair; its hold and its hold
\* checkout both succeeded
C11_Witness ==
    \E h \in DOMAIN holds :
        /\ HoldsOf(holds[h].patron_id, holds[h].book_id) = {h}
        /\ HoldSucceeded(h) /\ HoldCheckoutEvents(h) = 1
        /\ holds[h].hold_status = "CheckedOut"
        /\ HoldFromItem(holds[h]).checked_out_at = "Some"
        /\ HoldFromItem(holds[h]).canceled_at = "None"


(* ---------------- repository calls of one caller ----------------------- *)
\* One caller of one repository (in `service`: the table it serves) issues
\* create, get, update and delete calls one after the other over a store
\* that answers; the caller keeps the call it made before the last one.
RepoKeys(repo) ==
    CASE repo = "books" -> BookIds
      [] repo = "parties" -> PatronIds
      [] repo = "checkout" -> {1, 2}
      [] repo = "hold" -> {1, 2}

\* the entities a caller creates, as the entity constructors build them
NewEntities(repo) ==
    CASE repo = "books" ->
            {[book_id |-> id, version |-> 0, isbn |-> "isbn", title |-> "title",
              book_status |-> st, restricted |-> r, updated_at |-> "Some"] :
                id \in RepoKeys(repo), st \in {"Available", "CheckedOut"}, r \in BOOLEAN}
      [] repo = "parties" ->
            {[party_id |-> id, version |-> 0, kind |-> "Patron", email |-> "email",
              group_roles |-> r, updated_at |-> "Some"] :
                id \in RepoKeys(repo), r \in {{}, {"Admin"}}}
      [] repo = "checkout" ->
            {[CheckoutFromPatronBook(id, BranchId, [patron_id |-> "p1"], [book_id |-> "b1"])
                EXCEPT !.checkout_status = x[1], !.returned_at = x[2]] :
                id \in RepoKeys(repo),
                x \in {<<"CheckedOut", "None">>, <<"Returned", "Some">>}}
      [] repo = "hold" ->
            {HoldFromPatronBook(id, BranchId, [patron_id |-> "p1"], [book_id |-> "b1"]) :
                id \in RepoKeys(repo)}

\* Repository::create of the repository under run
RepoCreateReply(repo, e) ==
    CASE repo = "books" -> BookRepoCreate(books, e)
      [] repo = "parties" -> PartyRepoCreate(parties, e)
      [] repo = "checkout" -> CheckoutRepoCreate(checkouts, e)
      [] repo = "hold" -> HoldRepoCreate(holds, e)

\* a call argument that is only an id
KeyOf(repo, id) == [k \in {IdField(repo)} |-> id]

\* the call a caller made: what it did, the entity (or id) of the call, the
\* result, and the call before
RepoCaller(pc, rec, result, prev) ==
    [pc |-> pc, rec |-> rec, result |-> result, prev |-> prev]

LastCall(t) == Caller(task[t].pc, task[t].rec, task[t].result)

SetTable(repo, table) ==
    /\ books' = IF repo = "books" THEN table ELSE books
    /\ parties' = IF repo = "parties" THEN table ELSE parties
    /\ checkouts' = IF repo = "checkout" THEN table ELSE checkouts
    /\ holds' = IF repo = "hold" THEN table ELSE holds

\* Repository::create(entity)
RepoCreate(t, e) ==
    /\ LET r == RepoCreateReply(service, e)
       IN /\ task' = [task EXCEPT ![t] = RepoCaller("created", e, r.result, LastCall(t))]
          /\ SetTable(service, r.table)
    /\ UNCHANGED <<service, events>>

\* Repository::get(id): the stored entity, or NotFound
RepoFind(t, id) ==
    /\ task' = [task EXCEPT ![t] =
                  IF id \in DOMAIN Table(service)
                  THEN RepoCaller("found", RepoEntity(service, id), Ok, LastCall(t))
                  ELSE RepoCaller("found", KeyOf(service, id), not_found, LastCall(t))]
    /\ UNCHANGED <<service, books, parties, checkouts, holds, events>>

\* Repository::delete(id)
RepoDelete(t, id) ==
    /\ LET r == TableDelete(Table(service), id)
       IN /\ task' = [task EXCEPT ![t] =
                        RepoCaller("deleted", KeyOf(service, id), r.result, LastCall(t))]
          /\ SetTable(service, r.table)
    /\ UNCHANGED <<service, events>>

InitRepo ==
    /\ service \in Repositories
    /\ books = << >>
    /\ parties = << >>
    /\ checkouts = << >>
    /\ holds = << >>
    /\ events = EmptyBag
    /\ task = [t \in Tasks |-> Caller("idle", NoRec, NoResult)]

NextRepo ==
    \E t \in {"t1"} :
        \/ \E e \in NewEntities(service) : RepoCreate(t, e)
        \/ \E id \in RepoKeys(service) : RepoFind(t, id)
        \/ \E id \in RepoKeys(service) : RepoDelete(t, id)
        \/ \E id \in RepoKeys(service) : RepoGet(t, id)
        \/ RepoUpdate(t)

SpecRepo == InitRepo /\ [][NextRepo]_vars


(* ----------------------------- C12 ------------------------------------- *)
\* C12: in every repository, a create of an entity whose id is already
\* stored fails with a DuplicateKey error and leaves the table (so the
\* stored record and its version) unchanged.
C12_DuplicateCreateIsDuplicateKey ==
    [][\A t \in Tasks :
        (task'[t] # task[t] /\ task'[t].pc = "created"
            /\ task'[t].rec[IdField(service)] \in DOMAIN Table(service)) =>
            /\ task'[t].result.kind = "DuplicateKey"
            /\ Table(service)' = Table(service)]_vars

(* ----------------------------- C13 ------------------------------------- *)
\* C13: in every repository, an update of a stored record whose stored
\* version differs from entity.version returns a CurrentlyUnavailable error
\* whose retryable flag is false.
C13_StaleUpdateIsUnavailable ==
    [][\A t \in Tasks :
        (task[t].pc = "holding" /\ task'[t].pc = "updated"
            /\ task[t].rec[IdField(service)] \in DOMAIN Table(service)
            /\ ~StoredVersionIs(service, task[t].rec)) =>
            /\ task'[t].result.kind = "CurrentlyUnavailable"
            /\ ~task'[t].result.retryable]_vars


(* ----------------------------- C14 ------------------------------------- *)
\* C14: in every repository, a get(e.id) that directly follows a successful
\* create(e) returns an entity equal to e in every field, timestamps
\* included, with version 0.
C14_CreateThenGetIsEqual ==
    \A t \in Tasks :
        (/\ task[t].pc = "found"
         /\ task[t].prev.pc = "created"
         /\ task[t].prev.result = Ok
         /\ task[t].prev.rec[IdField(service)] = task[t].rec[IdField(service)]) =>
            /\ task[t].result = Ok
            /\ task[t].rec = task[t].prev.rec
            /\ task[t].rec.version = 0


(* ----------------------------- C15 ------------------------------------- *)
\* a delete call has just been made by t (a repeat of the very same call
\* after itself leaves every variable unchanged and is no step to look at)
DeleteStep(t) == task'[t] # task[t] /\ task'[t].pc = "deleted"

\* C15 (step part): in every repository, delete(id) succeeds for any id,
\* stored or not; afterwards the id is not stored and every other record is
\* as before, so a delete of an id that is not stored changes nothing.
C15_DeleteStep ==
    \A t \in Tasks :
        DeleteStep(t) =>
            LET id == task'[t].rec[IdField(service)]
            IN /\ task'[t].result = Ok
               /\ DOMAIN Table(service)' = DOMAIN Table(service) \ {id}
               /\ \A k \in DOMAIN Table(service)' : Table(service)'[k] = Table(service)[k]
               /\ id \notin DOMAIN Table(service) => Table(service)' = Table(service)

\* C15 (state part): a get(id) that directly follows a delete(id) yields
\* NotFound, and a delete that directly follows a delete succeeded too.
C15_GetAfterDelete ==
    \A t \in Tasks :
        /\ (task[t].pc = "found" /\ task[t].prev.pc = "deleted"
                /\ task[t].prev.rec[IdField(service)] = task[t].rec[IdField(service)]) =>
                task[t].result = not_found
        /\ task[t].pc = "deleted" => task[t].result = Ok

\* C15: delete(id) succeeds whether or not the id is stored, a following
\* get(id) yields NotFound, and a second delete succeeds and changes nothing.
C15_DeleteIdempotent == []C15_GetAfterDelete /\ [][C15_DeleteStep]_vars

\* a get that found nothing right after a successful delete of the same id,
\* while the table holds another record, which the delete left alone
C15_Witness ==
    \E t \in Tasks :
        /\ task[t].pc = "found"
        /\ task[t].result = not_found
        /\ task[t].prev.pc = "deleted"
        /\ task[t].prev.result = Ok
        /\ task[t].prev.rec = task[t].rec
        /\ DOMAIN Table(service) # {}


(* ---------------- paged queries of one caller -------------------------- *)
\* One caller pages through the checkout or the hold table, which nobody
\* writes meanwhile. Stored due_at / expires_at strings are kept as the
\* instant they denote (the store compares them as strings, which orders
\* them in time); every record belongs to patron p1, so the index order
\* within a partition is the order of the ids.
MaxRecords == 2
Times == {1, 3}
Clock == {0, 2}
FarFuture == 4
PageSizes == {1, 2}

QueryServices == {"checkout", "hold"}
StatusField(repo) == IF repo = "checkout" THEN "checkout_status" ELSE "hold_status"
DueField(repo) == IF repo = "checkout" THEN "due_at" ELSE "expires_at"
DueFilter(repo) == IF repo = "checkout" THEN "due_at:<=" ELSE "expires_at:<="
DefaultStatus(repo) == IF repo = "checkout" THEN "CheckedOut" ELSE "OnHold"
OtherStatus(repo) == IF repo = "checkout" THEN "Returned" ELSE "Canceled"

\* the store's answer to a request it finds malformed
ValidationException == [kind |-> "ServiceError", status |-> "400", exceeded |-> FALSE]

\* no cursor
NoPage == NoRec

\* a merge in which the cursor's attributes win over the predicate's
to_ddb_page_CursorWins(page, predicate) ==
    IF page = NoPage THEN NoPage
    ELSE [k \in DOMAIN page \cup DOMAIN predicate |->
            IF k \in DOMAIN page THEN page[k] ELSE predicate[k]]

\* to_ddb_page: the cursor's attributes, then every predicate entry on top
to_ddb_page(page, predicate) ==
    IF page = NoPage THEN NoPage
    ELSE [k \in DOMAIN page \cup DOMAIN predicate |->
            IF k \in DOMAIN predicate THEN predicate[k] ELSE page[k]]

\* from_ddb: the string attributes of the last evaluated key (all key
\* attributes are strings), as the next cursor
from_ddb(last_evaluated_key) == last_evaluated_key

\* add_filter_expr: "name:op" compares with op, a bare name with "="
FilterHolds(repo, item, k, v) ==
    IF k = DueFilter(repo) THEN item[DueField(repo)] <= v ELSE item[k] = v

PageResult(result, records, next_page) ==
    [result |-> result, records |-> records, next_page |-> next_page]

\* a query that sends the caller's page size as the limit
RepoQueryPage_Unclamped(repo, table, predicate, page, page_size) ==
    LET sf == StatusField(repo)
        status == IF sf \in DOMAIN predicate THEN predicate[sf] ELSE DefaultStatus(repo)
        start == to_ddb_page(page, predicate)
        keyed == {id \in DOMAIN table :
                    /\ table[id][sf] = status
                    /\ "patron_id" \in DOMAIN predicate
                          => table[id].patron_id = predicate["patron_id"]}
        filter == DOMAIN predicate \ {sf, "patron_id"}
        limit == page_size
    IN  IF start # NoPage /\ DOMAIN start # {IdField(repo), sf, "patron_id"}
        THEN PageResult(from_sdk_error(ValidationException), {}, NoPage)
        ELSE LET rest == {id \in keyed : start = NoPage \/ id > start[IdField(repo)]}
                 evaluated == {id \in rest : Cardinality({j \in rest : j < id}) < limit}
                 last == CHOOSE id \in evaluated : \A j \in evaluated : j <= id
                 last_evaluated_key ==
                    IF Cardinality(evaluated) = limit
                    THEN (IdField(repo) :> last) @@ (sf :> table[last][sf])
                            @@ ("patron_id" :> table[last].patron_id)
                    ELSE NoPage
             IN PageResult(Ok,
                    {id \in evaluated :
                        \A k \in filter : FilterHolds(repo, table[id], k, predicate[k])},
                    from_ddb(last_evaluated_key))

\* DDBCheckoutRepository::query / DDBHoldRepository::query over the index
\* (hash key: status, range key: patron_id), from the cursor on
RepoQueryPage(repo, table, predicate, page, page_size) ==
    LET sf == StatusField(repo)
        status == IF sf \in DOMAIN predicate THEN predicate[sf] ELSE DefaultStatus(repo)
        start == to_ddb_page(page, predicate)
        keyed == {id \in DOMAIN table :
                    /\ table[id][sf] = status
                    /\ "patron_id" \in DOMAIN predicate
                          => table[id].patron_id = predicate["patron_id"]}
        filter == DOMAIN predicate \ {sf, "patron_id"}
        limit == Min(page_size, MaxPageSize)
    IN  IF start # NoPage /\ DOMAIN start # {IdField(repo), sf, "patron_id"}
        THEN PageResult(from_sdk_error(ValidationException), {}, NoPage)
        ELSE LET rest == {id \in keyed : start = NoPage \/ id > start[IdField(repo)]}
                 evaluated == {id \in rest : Cardinality({j \in rest : j < id}) < limit}
                 last == CHOOSE id \in evaluated : \A j \in evaluated : j <= id
                 last_evaluated_key ==
                    IF Cardinality(evaluated) = limit
                    THEN (IdField(repo) :> last) @@ (sf :> table[last][sf])
                            @@ ("patron_id" :> table[last].patron_id)
                    ELSE NoPage
             IN PageResult(Ok,
                    {id \in evaluated :
                        \A k \in filter : FilterHolds(repo, table[id], k, predicate[k])},
                    from_ddb(last_evaluated_key))

\* query_overdue / query_expired: status and due bound first, then every
\* entry of the caller's predicate inserted over them
DuePredicate(repo, predicate, now) ==
    [k \in DOMAIN predicate \cup {StatusField(repo), DueFilter(repo)} |->
        IF k \in DOMAIN predicate THEN predicate[k]
        ELSE IF k = StatusField(repo) THEN DefaultStatus(repo)
        ELSE now]

\* the predicates a caller passes
Predicates(repo) ==
    { (IF s = "" THEN << >> ELSE StatusField(repo) :> s)
        @@ (IF p = "" THEN << >> ELSE "patron_id" :> p)
        @@ (IF b = "" THEN << >> ELSE "book_id" :> b)
        @@ (IF d = 0 THEN << >> ELSE DueFilter(repo) :> d) :
        s \in {"", DefaultStatus(repo), OtherStatus(repo)},
        p \in {"", "p1"}, b \in {"", "b1"}, d \in {0, FarFuture} }

\* the stored records
QueryItem(repo, id, status, book_id, due) ==
    IF repo = "checkout"
    THEN [CheckoutItem(CheckoutFromPatronBook(id, BranchId,
                [patron_id |-> "p1"], [book_id |-> book_id]))
            EXCEPT !.checkout_status = status, !.due_at = due]
    ELSE [HoldItem(HoldFromPatronBook(id, BranchId,
                [patron_id |-> "p1"], [book_id |-> book_id]))
            EXCEPT !.hold_status = status, !.expires_at = due]

QueryTables(repo) ==
    { [id \in 1..MaxRecords |-> QueryItem(repo, id, v[id][1], v[id][2], v[id][3])] :
        v \in [1..MaxRecords ->
                {DefaultStatus(repo), OtherStatus(repo)} \X BookIds \X Times] }

QueryMethods == {"query", "query_due"}

\* the paging caller
Pager(pc, method, predicate, page_size, page, now, last_page, visited, result) ==
    [pc |-> pc, method |-> method, predicate |-> predicate, page_size |-> page_size,
     page |-> page, now |-> now, last_page |-> last_page, visited |-> visited,
     result |-> result]

\* one call of query (or query_overdue / query_expired) with the cursor of
\* the call before; the caller stops at an error or at an empty cursor
PageCall(t) ==
    /\ task[t].pc = "paging"
    /\ \E now \in IF task[t].method = "query" THEN {0} ELSE Clock :
        LET c == task[t]
            predicate == IF c.method = "query" THEN c.predicate
                         ELSE DuePredicate(service, c.predicate, now)
            r == RepoQueryPage(service, Table(service), predicate, c.page, c.page_size)
        IN task' = [task EXCEPT ![t] =
                Pager(IF r.result # Ok \/ r.next_page = NoPage THEN "done" ELSE "paging",
                      c.method, c.predicate, c.page_size, r.next_page, now,
                      r.records, c.visited (+) SetToBag(r.records), r.result)]
    /\ UNCHANGED <<service, books, parties, checkouts, holds, events>>

InitQuery ==
    /\ service \in QueryServices
    /\ books = << >>
    /\ parties = << >>
    /\ checkouts \in IF service = "checkout" THEN QueryTables("checkout") ELSE {<< >>}
    /\ holds \in IF service = "hold" THEN QueryTables("hold") ELSE {<< >>}
    /\ events = EmptyBag
    /\ \E m \in QueryMethods, p \in Predicates(service), n \in PageSizes :
        task = [t \in Tasks |->
                    IF t = "t1"
                    THEN Pager("paging", m, p, n, NoPage, 0, {}, EmptyBag, NoResult)
                    ELSE Caller("idle", NoRec, NoResult)]

NextQuery == \E t \in {"t1"} : PageCall(t)

SpecQuery == InitQuery /\ [][NextQuery]_vars


(* ----------------------------- C16 ------------------------------------- *)
\* the stored records a predicate asks for
Matching(repo, table, predicate) ==
    LET sf == StatusField(repo)
    IN {id \in DOMAIN table :
            /\ table[id][sf] = IF sf \in DOMAIN predicate THEN predicate[sf]
                               ELSE DefaultStatus(repo)
            /\ \A k \in DOMAIN predicate \ {sf} :
                    FilterHolds(repo, table[id], k, predicate[k])}

\* C16: with no concurrent writes, a caller that calls query with a fixed
\* predicate and page size, passing back each result's next_page, ends with
\* an empty cursor having visited every record matching the predicate
\* exactly once, for every predicate, those with non-key filter fields
\* included.
C16_PagingVisitsAllOnce ==
    \A t \in Tasks :
        (task[t].pc = "done" /\ task[t].method = "query") =>
            /\ task[t].result = Ok
            /\ task[t].page = NoPage
            /\ task[t].visited = SetToBag(Matching(service, Table(service), task[t].predicate))

(* ----------------------------- C17 ------------------------------------- *)
\* C17: whatever predicate the caller passes and whatever the clock reads,
\* every record a query_overdue call returns is CheckedOut with due_at <=
\* now, and every record a query_expired call returns is OnHold with
\* expires_at <= now.
C17_DueQueryForcesStatusAndBound ==
    \A t \in Tasks :
        (task[t].pc \in {"paging", "done"} /\ task[t].method = "query_due") =>
            \A id \in task[t].last_page :
                /\ Table(service)[id][StatusField(service)] = DefaultStatus(service)
                /\ Table(service)[id][DueField(service)] <= task[t].now


(* ---------------- the three services, one client ----------------------- *)
\* One client sends one command at a time to the checkout, the hold or the
\* catalog service of a library with the restricted book b1, the patron p1
\* (no roles) and the administrator p2; commands may name a patron or a
\* book the library does not have.  The catalog commands are about b1.
MaxBookEvents == 3

LibraryServices == Services \cup {"catalog"}

\* BookEntity::from(&BookDto) of the books a catalog client sends
BookDtos ==
    {[book_id |-> "b1", version |-> v, isbn |-> "isbn", title |-> "title",
      book_status |-> st, restricted |-> TRUE, updated_at |-> "Some"] :
        v \in 0..(MaxVersion - 1), st \in {"Available", "CheckedOut"}}

\* an inbound catalog command; the length of a run is bounded by not
\* admitting commands once the feed holds MaxBookEvents events
StartCatalog(t, o, book) ==
    /\ task[t].pc = "idle"
    /\ service = "catalog"
    /\ o \in CatalogOps
    /\ BagCardinality(events) < MaxBookEvents
    /\ task' = [task EXCEPT ![t] =
                  [IdleTask EXCEPT !.pc = "write", !.op = o, !.book_id = book.book_id,
                                   !.rec = IF o = "remove_book"
                                           THEN KeyOf("books", book.book_id) ELSE book]]
    /\ UNCHANGED <<service, books, parties, checkouts, holds, events>>

\* book_repository.create / update / delete of the catalog method
CatalogWriteReply(o, rec) ==
    CASE o = "add_book" -> BookRepoCreate(books, rec)
      [] o = "update_book" -> BookRepoUpdate(books, rec)
      [] o = "remove_book" -> TableDelete(books, rec.book_id)

\* a catalog method that goes on to publish whatever the store answered
CatalogWrite_PublishAnyway(t) ==
    /\ task[t].pc = "write" /\ task[t].op \in CatalogOps
    /\ LET r == CatalogWriteReply(task[t].op, task[t].rec)
       IN /\ books' = r.table
          /\ Goto(t, "publish")
    /\ UNCHANGED <<service, parties, checkouts, holds, events>>

\* CatalogServiceImpl::add_book / update_book / remove_book: the store
\* write, awaited before the event is built
CatalogWrite(t) ==
    /\ task[t].pc = "write" /\ task[t].op \in CatalogOps
    /\ \/ /\ \E e \in TransportErrors : Return(t, from_sdk_error(e))
          /\ UNCHANGED books
       \/ LET r == CatalogWriteReply(task[t].op, task[t].rec)
          IN /\ books' = r.table
             /\ IF r.result = Ok THEN Goto(t, "publish") ELSE Return(t, r.result)
    /\ UNCHANGED <<service, parties, checkouts, holds, events>>

InitLibrary ==
    /\ service \in LibraryServices
    /\ books = ("b1" :> BookItem("b1", "Available", TRUE))
    /\ parties = ("p1" :> PartyItem("p1", "L", {}))
                  @@ ("p2" :> PartyItem("p2", "S", {"Admin"}))
    /\ checkouts = << >>
    /\ holds = << >>
    /\ events = EmptyBag
    /\ task = [t \in Tasks |-> IdleTask]

NextLibrary ==
    \E t \in {"t1"} :
        \/ \E o \in Ops, p \in PatronIds \cup {NoPatron}, b \in {"b1", NoBook} :
              StartCall(t, o, p, b)
        \/ \E o \in CatalogOps, book \in BookDtos : StartCatalog(t, o, book)
        \/ Step(t)
        \/ CatalogWrite(t)

SpecLibrary == InitLibrary /\ [][NextLibrary]_vars


(* ----------------------------- C18 ------------------------------------- *)
WritePcs == {"create", "update", "write"}

\* the store's reply to the write of the call t is in
WriteReply(t) ==
    LET o == task[t].op
        rec == task[t].rec
    IN CASE o = "checkout" -> CheckoutRepoCreate(checkouts, rec)
         [] o = "returned" -> CheckoutRepoUpdate(checkouts, rec)
         [] o = "hold" -> HoldRepoCreate(holds, rec)
         [] o \in {"cancel", "hold_checkout"} -> HoldRepoUpdate(holds, rec)
         [] o \in CatalogOps -> CatalogWriteReply(o, rec)

WrittenTable(t) ==
    CASE task[t].op \in CheckoutOps -> checkouts
      [] task[t].op \in HoldOps -> holds
      [] task[t].op \in CatalogOps -> books

\* C18 (events): the feed changes only by the publish of a call that has
\* reached its publish step, by exactly that call's event, and the call
\* then returns Ok.
C18_EventStep ==
    events' # events =>
        \E t \in Tasks :
            /\ task[t].pc = "publish"
            /\ events' = events (+) SetToBag({EventOf(task[t].op, task[t].rec)})
            /\ task'[t].pc = "idle"
            /\ task'[t].result = Ok

\* C18 (order): a call reaches its publish step only from its write step,
\* in a step in which the store accepted the write.
C18_PublishAfterWrite ==
    \A t \in Tasks :
        (task'[t].pc = "publish" /\ task[t].pc # "publish") =>
            /\ task[t].pc \in WritePcs
            /\ WriteReply(t).result = Ok
            /\ WrittenTable(t)' = WriteReply(t).table

\* C18 (failure): a call that ends at patron or book resolution, at
\* validation, at its query or at its write ends with an error, publishes
\* nothing, and a rejected write leaves the store as it was.
C18_FailureStep ==
    \A t \in Tasks :
        (task[t].pc \in {"find_patron", "find_book", "query"} \cup WritePcs
            /\ task'[t].pc = "idle") =>
            /\ task'[t].result # Ok
            /\ events' = events
            /\ <<books, checkouts, holds>>' = <<books, checkouts, holds>>

\* C18: for every mutating method of the three services, a call whose
\* resolution, validation or store write fails publishes no event, and every
\* published event follows the successful store write of its own call.
C18_NoEventWithoutWrite ==
    [][C18_EventStep /\ C18_PublishAfterWrite /\ C18_FailureStep]_vars

\* the last call was refused at validation after an earlier call had written
\* and published: the feed still holds that one event only
C18_Witness ==
    \E t \in Tasks :
        /\ task[t].pc = "idle"
        /\ task[t].op \in CreateOps
        /\ task[t].result = validation("400")
        /\ BagCardinality(events) = 1
        /\ Cardinality(DOMAIN checkouts) + Cardinality(DOMAIN holds) = 1

(* ----------------------------- C19 ------------------------------------- *)
\* the record of the call t, as its write left it in the store
Committed(t) ==
    LET o == task[t].op
        rec == task[t].rec
    IN CASE o = "checkout" ->
                rec.checkout_id \in DOMAIN checkouts
                    /\ checkouts[rec.checkout_id] = CheckoutItem(rec)
         [] o = "returned" ->
                rec.checkout_id \in DOMAIN checkouts
                    /\ checkouts[rec.checkout_id].version = rec.version + 1
                    /\ checkouts[rec.checkout_id].checkout_status = "Returned"
         [] o = "hold" ->
                rec.hold_id \in DOMAIN holds /\ holds[rec.hold_id] = HoldItem(rec)
         [] o \in {"cancel", "hold_checkout"} ->
                rec.hold_id \in DOMAIN holds
                    /\ holds[rec.hold_id].version = rec.version + 1
                    /\ holds[rec.hold_id].hold_status = rec.hold_status
         [] o = "add_book" ->
                rec.book_id \in DOMAIN books /\ books[rec.book_id] = BookEntityItem(rec)
         [] o = "update_book" ->
                rec.book_id \in DOMAIN books
                    /\ books[rec.book_id].version = rec.version + 1
                    /\ books[rec.book_id].book_status = rec.book_status
         [] o = "remove_book" -> rec.book_id \notin DOMAIN books

\* C19 (step part): the publish step of a call returns an error exactly when
\* it adds no event, and then it leaves every store as it was, the record
\* the call wrote included.
C19_PublishStep ==
    \A t \in Tasks :
        (task[t].pc = "publish" /\ task'[t].pc = "idle") =>
            /\ (task'[t].result # Ok) <=> (events' = events)
            /\ task'[t].result # Ok =>
                    /\ <<books, parties, checkouts, holds>>' = <<books, parties, checkouts, holds>>
                    /\ Committed(t)

CatalogKind(o) ==
    CASE o = "add_book" -> "Added"
      [] o = "update_book" -> "Updated"
      [] o = "remove_book" -> "Deleted"

\* C20 (step part): a catalog call makes its one store write in its first
\* step, publishing nothing; if the store accepted it, the next step is the
\* one publish, which writes nothing, and a call that returns Ok has added
\* exactly one event of kind Added, Updated or Deleted (by method), group
\* "books", key the book id.
C20_CatalogStep ==
    \A t \in Tasks :
        (task[t].op \in CatalogOps /\ task'[t] # task[t]) =>
            /\ task[t].pc = "write" =>
                    /\ task'[t].pc \in {"publish", "idle"}
                    /\ events' = events
                    /\ task'[t].pc = "publish" =>
                            /\ WriteReply(t).result = Ok
                            /\ books' = WriteReply(t).table
                    /\ task'[t].pc = "idle" => task'[t].result # Ok /\ books' = books
            /\ task[t].pc = "publish" =>
                    /\ task'[t].pc = "idle"
                    /\ books' = books
                    /\ task'[t].result = Ok =>
                            events' = events (+) SetToBag({
                                [name |-> "books", group |-> "books",
                                 key |-> task[t].book_id, kind |-> CatalogKind(task[t].op)]})
                    /\ task'[t].result # Ok => events' = events

\* C20: each successful add_book, update_book and remove_book performs one
\* store write and then one publish of an event of kind Added, Updated and
\* Deleted respectively, with group "books" and key equal to the book id.
C20_OneWriteThenOnePublish == [][C20_CatalogStep]_vars

\* update_book has just returned Ok: the stored book is at version 1 and the
\* feed holds the one Updated event of b1
C20_Witness ==
    \E t \in Tasks :
        /\ task[t].pc = "idle"
        /\ task[t].op = "update_book"
        /\ task[t].result = Ok
        /\ "b1" \in DOMAIN books /\ books["b1"].version = 1
        /\ events = SetToBag({[name |-> "books", group |-> "books",
                               key |-> "b1", kind |-> "Updated"]})


(* ---------------- the patron service ----------------------------------- *)
\* One client calls the patron service of a library with the patron p1; the
\* event table, which the services share, is empty or holds the event of an
\* earlier catalog call.
PatronOps ==
    {"add_patron", "update_patron", "remove_patron", "find_patron_by_id",
     "find_patron_by_email"}

\* PartyEntity::from(&PatronDto) of the patrons a client sends
PatronDtos ==
    {[party_id |-> id, version |-> v, kind |-> "Patron", email |-> "email",
      group_roles |-> r, updated_at |-> "Some"] :
        id \in PatronIds, v \in 0..(MaxVersion - 1), r \in {{}, {"Admin"}}}

\* an inbound patron command
StartPatron(t, o, patron) ==
    /\ task[t].pc = "idle"
    /\ service = "patrons"
    /\ o \in PatronOps
    /\ task' = [task EXCEPT ![t] =
                  [IdleTask EXCEPT !.pc = "party_call", !.op = o,
                                   !.patron_id = patron.party_id,
                                   !.rec = IF o \in {"add_patron", "update_patron"}
                                           THEN patron
                                           ELSE KeyOf("parties", patron.party_id)]]
    /\ UNCHANGED <<service, books, parties, checkouts, holds, events>>

\* the one party_repository call of a PatronServiceImpl method
PatronCallReply(o, rec) ==
    CASE o = "add_patron" -> PartyRepoCreate(parties, rec)
      [] o = "update_patron" -> PartyRepoUpdate(parties, rec)
      [] o = "remove_patron" -> TableDelete(parties, rec.party_id)
      [] o = "find_patron_by_id" ->
            Reply(parties, IF rec.party_id \in DOMAIN parties THEN Ok ELSE not_found)
      [] o = "find_patron_by_email" ->
            \* the page of the query is the answer, whatever it holds
            Reply(parties, Ok)

\* a patron method that announces its write on the event feed
PatronCall_Publishing(t) ==
    /\ task[t].pc = "party_call" /\ task[t].op \in PatronOps
    /\ LET r == PatronCallReply(task[t].op, task[t].rec)
       IN /\ parties' = r.table
          /\ events' = IF r.result = Ok /\ r.table # parties
                       THEN events (+) SetToBag({DomainEvent("patrons", "patrons",
                                                    task[t].patron_id, "Updated")})
                       ELSE events
          /\ Return(t, r.result)
    /\ UNCHANGED <<service, books, checkouts, holds>>

\* PatronServiceImpl::add_patron / remove_patron / update_patron /
\* find_patron_by_id / find_patron_by_email: one repository call, whose
\* result is the method's result
PatronCall(t) ==
    /\ task[t].pc = "party_call" /\ task[t].op \in PatronOps
    /\ \/ /\ \E e \in TransportErrors : Return(t, from_sdk_error(e))
          /\ UNCHANGED parties
       \/ LET r == PatronCallReply(task[t].op, task[t].rec)
          IN /\ parties' = r.table
             /\ Return(t, r.result)
    /\ UNCHANGED <<service, books, checkouts, holds, events>>

InitPatron ==
    /\ service = "patrons"
    /\ books = << >>
    /\ parties = ("p1" :> PartyItem("p1", "L", {}))
    /\ checkouts = << >>
    /\ holds = << >>
    /\ events \in {EmptyBag, SetToBag({EventOf("add_book", [book_id |-> "b1"])})}
    /\ task = [t \in Tasks |-> IdleTask]

NextPatron ==
    \E t \in {"t1"} :
        \/ \E o \in PatronOps, patron \in PatronDtos : StartPatron(t, o, patron)
        \/ PatronCall(t)

SpecPatron == InitPatron /\ [][NextPatron]_vars

(* ----------------------------- C21 ------------------------------------- *)
\* C21: no step of a patron service method (add_patron, update_patron,
\* remove_patron, find_patron_by_id, find_patron_by_email) changes the event
\* feed, so the feed is unchanged by any sequence of patron operations.
C21_PatronNeverPublishes ==
    [][(\E t \in Tasks : task[t].op \in PatronOps \/ task'[t].op \in PatronOps)
            => events' = events]_vars

\* update_patron has just succeeded on the stored patron (its roles are now
\* written as a string) and the feed still holds the one earlier event
C21_Witness ==
    \E t \in Tasks :
        /\ task[t].pc = "idle"
        /\ task[t].op = "update_patron"
        /\ task[t].result = Ok
        /\ "p1" \in DOMAIN parties /\ parties["p1"].version = 1
        /\ events = SetToBag({EventOf("add_book", [book_id |-> "b1"])})


(* ----------------------------- C22 ------------------------------------- *)
\* C22 (step part): a step of a checkout or hold service call leaves the
\* book and party tables as they are; a step of a hold call (hold, cancel,
\* hold checkout) leaves the checkout table as it is and a step of a
\* checkout call (checkout, returned) leaves the hold table as it is.
C22_OwnStoreStep ==
    \A t \in Tasks :
        (task'[t] # task[t] /\ task'[t].op \in Ops) =>
            /\ books' = books
            /\ parties' = parties
            /\ task'[t].op \in HoldOps => checkouts' = checkouts
            /\ task'[t].op \in CheckoutOps => holds' = holds

\* C22: checkout, returned, hold, cancel and hold checkout write only the
\* table of their own entity: no Book or Party record is created, updated
\* or deleted, HoldService.checkout creates no Checkout and no checkout
\* method touches a Hold.
C22_WritesOwnStoreOnly == [][C22_OwnStoreStep]_vars

\* a hold checkout has succeeded: the hold is CheckedOut, there is no
\* Checkout record, and the book is still Available at version 0
C22_Witness ==
    \E t \in Tasks :
        /\ task[t].pc = "idle"
        /\ task[t].op = "hold_checkout"
        /\ task[t].result = Ok
        /\ \E h \in DOMAIN holds : holds[h].hold_status = "CheckedOut"
        /\ checkouts = << >>
        /\ books["b1"].book_status = "Available" /\ books["b1"].version = 0


(* ----------------------------- C23 ------------------------------------- *)
\* C23 (state part): no stored hold has status Waiting.
C23_NoWaitingHold ==
    \A h \in DOMAIN holds : holds[h].hold_status \in {"OnHold", "Canceled", "CheckedOut"}

\* C23 (step part): a hold enters the table as OnHold, and a step that
\* changes the status of a stored hold sets it to Canceled or CheckedOut.
C23_HoldStatusStep ==
    \A h \in DOMAIN holds' :
        /\ h \notin DOMAIN holds => holds'[h].hold_status = "OnHold"
        /\ (h \in DOMAIN holds /\ holds'[h].hold_status # holds[h].hold_status) =>
                holds'[h].hold_status \in {"Canceled", "CheckedOut"}

\* C23: no sequence of hold service calls stores a hold with status
\* Waiting: hold() creates it OnHold and its only later statuses are
\* Canceled and CheckedOut.
C23_WaitingUnreachable == []C23_NoWaitingHold /\ [][C23_HoldStatusStep]_vars

\* hold, cancel and hold checkout have all acted: one stored hold is
\* Canceled and another CheckedOut
C23_Witness ==
    \E h1, h2 \in DOMAIN holds :
        /\ holds[h1].hold_status = "Canceled"
        /\ holds[h2].hold_status = "CheckedOut"


(* ---------------- returns of a patron with many checkouts -------------- *)
\* One client returns books of the patron p1, who has up to
\* MaxOtherCheckouts books b2 checked out and possibly the book b1.
MaxOtherCheckouts == 11

ManyCheckouts(others, own) ==
    [id \in 1..(others + own) |->
        CheckoutItem(CheckoutFromPatronBook(id, BranchId, [patron_id |-> "p1"],
            [book_id |-> IF id <= others THEN "b2" ELSE "b1"]))]

InitReturn ==
    /\ service = "checkout"
    /\ books = ("b1" :> BookItem("b1", "Available", FALSE))
                 @@ ("b2" :> BookItem("b2", "Available", FALSE))
    /\ parties = ("p1" :> PartyItem("p1", "L", {}))
    /\ \E others \in 0..MaxOtherCheckouts, own \in 0..1 :
            checkouts = ManyCheckouts(others, own)
    /\ holds = << >>
    /\ events = EmptyBag
    /\ task = [t \in Tasks |-> IdleTask]

NextReturn ==
    \E t \in {"t1"} :
        \/ StartCall(t, "returned", "p1", "b1")
        \/ FindPatron(t)
        \/ FindBook(t)
        \/ ReturnedQuery(t)
        \/ ReturnedUpdate(t)
        \/ Publish(t)

SpecReturn == InitReturn /\ [][NextReturn]_vars

(* ----------------------------- C24 ------------------------------------- *)
\* C24: whenever a CheckedOut checkout of (patron, book) is stored, however
\* many other books the patron has checked out, the lookup of returned does
\* not end with NotFound (the call goes on to update a record of the pair,
\* unless the store fails).
C24_ReturnedFindsThePair ==
    [][\A t \in Tasks :
        (/\ task[t].pc = "query" /\ task[t].op = "returned"
         /\ \E c \in DOMAIN checkouts :
                /\ checkouts[c].patron_id = task[t].patron_id
                /\ checkouts[c].book_id = task[t].book_id
                /\ checkouts[c].checkout_status = "CheckedOut"
         /\ task'[t].pc # "query") =>
            /\ task'[t].result # not_found
            /\ task'[t].pc = "update" =>
                    /\ task'[t].rec.patron_id = task[t].patron_id
                    /\ task'[t].rec.book_id = task[t].book_id]_vars


(* ---------------- queries over a large table --------------------------- *)
\* One caller pages through a checkout or hold table that holds about
\* MaxPageSize records of the patron p1, with page sizes around and above
\* MaxPageSize and a predicate over the index keys.
LargeSizes == {MaxPageSize - 1, MaxPageSize, MaxPageSize + 1, MaxPageSize + 2}
LargePageSizes ==
    {MaxPageSize \div 2, MaxPageSize - 1, MaxPageSize, MaxPageSize + 1, 2 * MaxPageSize}

LargeTable(repo, n) ==
    [id \in 1..n |-> QueryItem(repo, id, DefaultStatus(repo), "b1", 1)]

InitLimit ==
    /\ service \in QueryServices
    /\ books = << >>
    /\ parties = << >>
    /\ \E n \in LargeSizes :
        /\ checkouts = IF service = "checkout" THEN LargeTable("checkout", n) ELSE << >>
        /\ holds = IF service = "hold" THEN LargeTable("hold", n) ELSE << >>
    /\ events = EmptyBag
    /\ \E p \in {q \in Predicates(service) : DOMAIN q \subseteq {"patron_id"}},
          n \in LargePageSizes :
        task = [t \in Tasks |->
                    IF t = "t1"
                    THEN Pager("paging", "query", p, n, NoPage, 0, {}, EmptyBag, NoResult)
                    ELSE Caller("idle", NoRec, NoResult)]

NextLimit == \E t \in {"t1"} : PageCall(t)

SpecLimit == InitLimit /\ [][NextLimit]_vars

(* ----------------------------- C25 ------------------------------------- *)
\* C25: for every page size of one or more, a page returned by query holds
\* at most page_size records and never more than 500.
C25_PageWithinLimit ==
    \A t \in Tasks :
        task[t].pc \in {"paging", "done"} =>
            /\ Cardinality(task[t].last_page) <= task[t].page_size
            /\ Cardinality(task[t].last_page) <= 500

\* a caller asked for pages of 1000 over a table of more than 500 matching
\* records and got a page of exactly 500, with a cursor to go on
C25_Witness ==
    \E t \in Tasks :
        /\ task[t].pc = "paging"
        /\ task[t].page_size = 1000
        /\ Cardinality(DOMAIN Table(service)) > 500
        /\ Cardinality(task[t].last_page) = 500
        /\ task[t].page # NoPage


(* ---------------- the error mapping ------------------------------------ *)
\* A caller maps one store failure to a LibraryError: either a (reason,
\* retryable) pair through database_or_unavailable, or an SdkError of one of
\* the store operations through its From implementation.
Reasons ==
    {"", "40", "400", "401", "403", "404", "409", "500", "503", "1404", "4004", "4040",
     "14000", "400404", "404400", "400 Bad Request", "404 Not Found",
     "ConstructionFailure"}

StoreOperations ==
    {"UpdateItem", "PutItem", "DeleteItem", "Query", "Scan", "ExecuteStatement"}

SdkErrorKinds ==
    {"ConstructionFailure", "TimeoutError", "DispatchFailure", "ResponseError",
     "ServiceError", "Other"}

ServiceStatuses == {"400", "401", "403", "404", "409", "500", "502", "503", "504"}

SdkErrors ==
    {[kind |-> k, status |-> "", exceeded |-> FALSE] : k \in SdkErrorKinds \ {"ServiceError"}}
        \cup {[kind |-> "ServiceError", status |-> st, exceeded |-> x] :
                st \in ServiceStatuses, x \in BOOLEAN}

\* LibraryError::database_or_unavailable(message, reason, retryable)
MapReason(t) ==
    /\ task[t].pc = "reason"
    /\ task' = [task EXCEPT ![t] =
                  Caller("mapped_reason", task[t].rec,
                         database_or_unavailable(task[t].rec.reason, task[t].rec.retryable))]
    /\ UNCHANGED <<service, books, parties, checkouts, holds, events>>

\* LibraryError::from(SdkError<..>)
MapSdkError(t) ==
    /\ task[t].pc = "sdk_error"
    /\ task' = [task EXCEPT ![t] =
                  Caller("mapped_sdk_error", task[t].rec, from_sdk_error(task[t].rec.err))]
    /\ UNCHANGED <<service, books, parties, checkouts, holds, events>>

InitError ==
    /\ service \in Repositories
    /\ books = << >>
    /\ parties = << >>
    /\ checkouts = << >>
    /\ holds = << >>
    /\ events = EmptyBag
    /\ \/ \E reason \in Reasons \cup {NoReason}, retryable \in BOOLEAN :
            task = [t \in Tasks |->
                        Caller("reason", [reason |-> reason, retryable |-> retryable],
                               NoResult)]
       \/ \E o \in StoreOperations, err \in SdkErrors :
            task = [t \in Tasks |->
                        Caller("sdk_error", [operation |-> o, err |-> err], NoResult)]

NextError == \E t \in {"t1"} : MapReason(t) \/ MapSdkError(t)

SpecError == InitError /\ [][NextError]_vars

(* ----------------------------- C26 ------------------------------------- *)
\* C26: database_or_unavailable(message, reason, retryable) returns
\* CurrentlyUnavailable with retryable = true whenever retryable is true;
\* otherwise NotFound when the reason contains "404", else AccessDenied when
\* it contains "400", else (any other reason, or none) Database with
\* retryable = false.  It never returns a retryable Database error nor a
\* CurrentlyUnavailable that is not retryable.
C26_DatabaseOrUnavailable ==
    \A t \in Tasks :
        task[t].pc = "mapped_reason" =>
            LET reason == task[t].rec.reason
                retryable == task[t].rec.retryable
                r == task[t].result
            IN /\ retryable => r.kind = "CurrentlyUnavailable" /\ r.retryable
               /\ (~retryable /\ reason # NoReason /\ contains(reason, "404")) =>
                        r.kind = "NotFound"
               /\ (~retryable /\ reason # NoReason /\ ~contains(reason, "404")
                        /\ contains(reason, "400")) => r.kind = "AccessDenied"
               /\ (~retryable /\ (reason = NoReason \/
                        (~contains(reason, "404") /\ ~contains(reason, "400")))) =>
                        r.kind = "Database" /\ ~r.retryable
               /\ ~(r.kind = "Database" /\ r.retryable)
               /\ ~(r.kind = "CurrentlyUnavailable" /\ ~r.retryable)

\* a reason that holds "404" inside a longer text, not retryable, has been
\* mapped to NotFound
C26_Witness ==
    \E t \in Tasks :
        /\ task[t].pc = "mapped_reason"
        /\ task[t].rec = [reason |-> "1404", retryable |-> FALSE]
        /\ task[t].result.kind = "NotFound"


(* ----------------------------- C27 ------------------------------------- *)
\* the store failures with a server error status whose mapping has been made
C27_ServerFailures ==
    {t \in Tasks : /\ task[t].pc = "mapped_sdk_error"
                   /\ task[t].rec.err.kind = "ServiceError"
                   /\ task[t].rec.err.status \in {"500", "502", "503", "504"}}

\* C27 as stated: a store failure with a server error status is surfaced as a
\* Database error with retryable = true.
C27_ServerErrorIsRetryableDatabase ==
    \A t \in C27_ServerFailures :
        task[t].result.kind = "Database" /\ task[t].result.retryable

\* C27, amended: a store failure with a server error status is surfaced as a
\* CurrentlyUnavailable error with retryable = true, whose reason code is the
\* status; it is never a Database error.
C27_ServerErrorIsUnavailable ==
    \A t \in C27_ServerFailures :
        /\ task[t].result.kind = "CurrentlyUnavailable"
        /\ task[t].result.retryable
        /\ task[t].result.reason_code = task[t].rec.err.status

\* a 503 reply to a Query has been mapped
C27_Witness ==
    \E t \in C27_ServerFailures :
        /\ task[t].rec.operation = "Query"
        /\ task[t].rec.err.status = "503"
        /\ ~task[t].rec.err.exceeded
        /\ task[t].result.retryable


(* ------------------------ enums and their texts ------------------------ *)
\* A value of one of the five enums, apart from every text and from the
\* values of the other enums (BookStatus::CheckedOut is not
\* CheckoutStatus::CheckedOut).
EnumValue(enum, variant) == [enum |-> enum, variant |-> variant]

PartyKind == {"Patron", "Employee", "Branch", "Organization"}

Enums == {"BookStatus", "Role", "CheckoutStatus", "HoldStatus", "PartyKind"}

Variants(enum) ==
    CASE enum = "BookStatus" -> BookStatus
      [] enum = "Role" -> Role
      [] enum = "CheckoutStatus" -> CheckoutStatus
      [] enum = "HoldStatus" -> HoldStatus
      [] enum = "PartyKind" -> PartyKind

EnumValues == UNION {{EnumValue(e, v) : v \in Variants(e)} : e \in Enums}

\* a parser whose last named arm is missing, so that text takes the default
from_string_LastArmMissing(enum, s) ==
    CASE enum = "BookStatus" ->
            IF s = "Available" THEN EnumValue(enum, "Available")
            ELSE IF s = "CheckedOut" THEN EnumValue(enum, "CheckedOut")
            ELSE IF s = "OnHold" THEN EnumValue(enum, "OnHold")
            ELSE EnumValue(enum, "Unknown")
      [] enum = "Role" ->
            IF s = "Admin" THEN EnumValue(enum, "Admin")
            ELSE IF s = "Regular" THEN EnumValue(enum, "Regular")
            ELSE IF s = "Child" THEN EnumValue(enum, "Child")
            ELSE IF s = "Employee" THEN EnumValue(enum, "Employee")
            ELSE EnumValue(enum, "Regular")
      [] enum = "CheckoutStatus" ->
            IF s = "CheckedOut" THEN EnumValue(enum, "CheckedOut")
            ELSE EnumValue(enum, "CheckedOut")
      [] enum = "HoldStatus" ->
            IF s = "OnHold" THEN EnumValue(enum, "OnHold")
            ELSE IF s = "Waiting" THEN EnumValue(enum, "Waiting")
            ELSE IF s = "CheckedOut" THEN EnumValue(enum, "CheckedOut")
            ELSE EnumValue(enum, "OnHold")
      [] enum = "PartyKind" ->
            IF s = "Patron" THEN EnumValue(enum, "Patron")
            ELSE IF s = "Employee" THEN EnumValue(enum, "Employee")
            ELSE IF s = "Branch" THEN EnumValue(enum, "Branch")
            ELSE EnumValue(enum, "Patron")

\* impl From<String> for BookStatus / Role / CheckoutStatus / HoldStatus /
\* PartyKind: the named arms, then the default arm
from_string(enum, s) ==
    CASE enum = "BookStatus" ->
            IF s = "Available" THEN EnumValue(enum, "Available")
            ELSE IF s = "CheckedOut" THEN EnumValue(enum, "CheckedOut")
            ELSE IF s = "OnHold" THEN EnumValue(enum, "OnHold")
            ELSE IF s = "Deleted" THEN EnumValue(enum, "Deleted")
            ELSE EnumValue(enum, "Unknown")
      [] enum = "Role" ->
            IF s = "Admin" THEN EnumValue(enum, "Admin")
            ELSE IF s = "Regular" THEN EnumValue(enum, "Regular")
            ELSE IF s = "Child" THEN EnumValue(enum, "Child")
            ELSE IF s = "Employee" THEN EnumValue(enum, "Employee")
            ELSE IF s = "Librarian" THEN EnumValue(enum, "Librarian")
            ELSE EnumValue(enum, "Regular")
      [] enum = "CheckoutStatus" ->
            IF s = "CheckedOut" THEN EnumValue(enum, "CheckedOut")
            ELSE IF s = "Returned" THEN EnumValue(enum, "Returned")
            ELSE EnumValue(enum, "CheckedOut")
      [] enum = "HoldStatus" ->
            IF s = "OnHold" THEN EnumValue(enum, "OnHold")
            ELSE IF s = "Waiting" THEN EnumValue(enum, "Waiting")
            ELSE IF s = "CheckedOut" THEN EnumValue(enum, "CheckedOut")
            ELSE IF s = "Canceled" THEN EnumValue(enum, "Canceled")
            ELSE EnumValue(enum, "OnHold")
      [] enum = "PartyKind" ->
            IF s = "Patron" THEN EnumValue(enum, "Patron")
            ELSE IF s = "Employee" THEN EnumValue(enum, "Employee")
            ELSE IF s = "Branch" THEN EnumValue(enum, "Branch")
            ELSE IF s = "Organization" THEN EnumValue(enum, "Organization")
            ELSE EnumValue(enum, "Patron")

\* impl Display for BookStatus / Role / CheckoutStatus / HoldStatus /
\* PartyKind, one arm per variant
to_string(v) ==
    CASE v.enum = "BookStatus" ->
            (CASE v.variant = "Available" -> "Available"
               [] v.variant = "CheckedOut" -> "CheckedOut"
               [] v.variant = "OnHold" -> "OnHold"
               [] v.variant = "Deleted" -> "Deleted"
               [] v.variant = "Unknown" -> "Unknown")
      [] v.enum = "Role" ->
            (CASE v.variant = "Admin" -> "Admin"
               [] v.variant = "Regular" -> "Regular"
               [] v.variant = "Child" -> "Child"
               [] v.variant = "Employee" -> "Employee"
               [] v.variant = "Librarian" -> "Librarian")
      [] v.enum = "CheckoutStatus" ->
            (CASE v.variant = "CheckedOut" -> "CheckedOut"
               [] v.variant = "Returned" -> "Returned")
      [] v.enum = "HoldStatus" ->
            (CASE v.variant = "OnHold" -> "OnHold"
               [] v.variant = "Waiting" -> "Waiting"
               [] v.variant = "CheckedOut" -> "CheckedOut"
               [] v.variant = "Canceled" -> "Canceled")
      [] v.enum = "PartyKind" ->
            (CASE v.variant = "Patron" -> "Patron"
               [] v.variant = "Employee" -> "Employee"
               [] v.variant = "Branch" -> "Branch"
               [] v.variant = "Organization" -> "Organization")

\* the texts a store attribute may hold: every variant's name, the empty
\* text and names in another case
Texts == UNION {Variants(e) : e \in Enums} \cup {"", "available", "RETURNED"}

NoValue == EnumValue("", "")

\* what a caller holds: the enum, a value of it, a text, the value parsed
Conversion(enum, value, text, parsed) ==
    [enum |-> enum, value |-> value, text |-> text, parsed |-> parsed]

\* value.to_string()
Format(t) ==
    /\ task[t].pc = "value"
    /\ task' = [task EXCEPT ![t] =
                  Caller("formatted",
                         [task[t].rec EXCEPT !.text = to_string(task[t].rec.value)],
                         NoResult)]
    /\ UNCHANGED <<service, books, parties, checkouts, holds, events>>

\* T::from(text)
Parse(t) ==
    /\ task[t].pc \in {"formatted", "text"}
    /\ task' = [task EXCEPT ![t] =
                  Caller(IF task[t].pc = "formatted" THEN "round_trip" ELSE "parsed",
                         [task[t].rec EXCEPT
                            !.parsed = from_string(task[t].rec.enum, task[t].rec.text)],
                         NoResult)]
    /\ UNCHANGED <<service, books, parties, checkouts, holds, events>>

InitEnum ==
    /\ service = "enums"
    /\ books = << >>
    /\ parties = << >>
    /\ checkouts = << >>
    /\ holds = << >>
    /\ events = EmptyBag
    /\ \/ \E v \in EnumValues :
            task = [t \in Tasks |-> Caller("value", Conversion(v.enum, v, "", NoValue),
                                           NoResult)]
       \/ \E e \in Enums, s \in Texts :
            task = [t \in Tasks |-> Caller("text", Conversion(e, NoValue, s, NoValue),
                                           NoResult)]

NextEnum == \E t \in {"t1"} : Format(t) \/ Parse(t)

SpecEnum == InitEnum /\ [][NextEnum]_vars

(* ----------------------------- C28 ------------------------------------- *)
\* C28: for every value v of BookStatus, Role, CheckoutStatus, HoldStatus and
\* PartyKind, parsing the display text back gives the same value:
\* from(to_string(v)) = v.
C28_RoundTrip ==
    \A t \in Tasks :
        task[t].pc = "round_trip" =>
            /\ task[t].rec.value \in EnumValues
            /\ task[t].rec.parsed = task[t].rec.value

\* the last variant of an enum, and one whose name another enum shares, have
\* made the round trip
C28_Witness ==
    \E t \in Tasks :
        /\ task[t].pc = "round_trip"
        /\ task[t].rec.value \in {EnumValue("Role", "Librarian"),
                                  EnumValue("HoldStatus", "CheckedOut")}
        /\ task[t].rec.text \in {"Librarian", "CheckedOut"}
        /\ task[t].rec.parsed = task[t].rec.value


(* --------------------- the store-backed event feed --------------------- *)
\* In this specification `events` is the table "events" of the store-backed
\* publisher: event_id -> item.  One caller builds events and publishes them;
\* it may publish the event it holds more than once.
EventIds == {"e1", "e2"}

EventKinds == {"Added", "Updated", "Deleted"}

\* DomainEvent::build: event_id is a new v4 uuid, created_at is now
BuiltEvent(event_id, event) ==
    [event_id |-> event_id, name |-> event.name, group |-> event.group,
     key |-> event.key, kind |-> event.kind, created_at |-> "Now"]

BuiltEvents ==
    {BuiltEvent(id, DomainEvent("books", "books", key, kind)) :
        id \in EventIds, key \in BookIds, kind \in EventKinds}

\* parse_item(serde_json::to_value(event)): created_at goes through the
\* serializer
EventItem(event) == [event EXCEPT !.created_at = serializer(event.created_at)]

\* DomainEvent::added / updated / deleted
BuildEvent(t, event) ==
    /\ task[t].pc = "idle"
    /\ task' = [task EXCEPT ![t] = Caller("built", event, NoResult)]
    /\ UNCHANGED <<service, books, parties, checkouts, holds, events>>

\* a put without the condition expression
PublishEvent_Overwrite(t) ==
    /\ task[t].pc \in {"built", "published"}
    /\ \/ /\ \E err \in TransportResults :
                task' = [task EXCEPT ![t] = Caller("published", task[t].rec, err)]
          /\ UNCHANGED events
       \/ /\ events' = [id \in DOMAIN events \cup {task[t].rec.event_id} |->
                            IF id = task[t].rec.event_id THEN EventItem(task[t].rec)
                            ELSE events[id]]
          /\ task' = [task EXCEPT ![t] = Caller("published", task[t].rec, Ok)]
    /\ UNCHANGED <<service, books, parties, checkouts, holds>>

\* DDBPublisher::publish: put_item with attribute_not_exists(event_id)
PublishEvent(t) ==
    /\ task[t].pc \in {"built", "published"}
    /\ \/ /\ \E err \in TransportResults :
                task' = [task EXCEPT ![t] = Caller("published", task[t].rec, err)]
          /\ UNCHANGED events
       \/ /\ task[t].rec.event_id \in DOMAIN events
          /\ task' = [task EXCEPT ![t] =
                        Caller("published", task[t].rec,
                               from_sdk_error(ConditionalCheckFailed))]
          /\ UNCHANGED events
       \/ /\ task[t].rec.event_id \notin DOMAIN events
          /\ events' = [id \in DOMAIN events \cup {task[t].rec.event_id} |->
                            IF id = task[t].rec.event_id THEN EventItem(task[t].rec)
                            ELSE events[id]]
          /\ task' = [task EXCEPT ![t] = Caller("published", task[t].rec, Ok)]
    /\ UNCHANGED <<service, books, parties, checkouts, holds>>

\* the caller drops the event it holds
DropEvent(t) ==
    /\ task[t].pc = "published"
    /\ task' = [task EXCEPT ![t] = Caller("idle", NoRec, NoResult)]
    /\ UNCHANGED <<service, books, parties, checkouts, holds, events>>

InitFeed ==
    /\ service = "events"
    /\ books = << >>
    /\ parties = << >>
    /\ checkouts = << >>
    /\ holds = << >>
    /\ events = << >>
    /\ task = [t \in Tasks |-> Caller("idle", NoRec, NoResult)]

NextFeed ==
    \E t \in {"t1"} :
        \/ \E event \in BuiltEvents : BuildEvent(t, event)
        \/ PublishEvent(t)
        \/ DropEvent(t)

SpecFeed == InitFeed /\ [][NextFeed]_vars

(* ----------------------------- C29 ------------------------------------- *)
\* C29: the event feed is append-only: once an event is stored no step
\* changes or removes it, and publishing through the store-backed publisher
\* an event whose event_id is already in the feed fails and leaves the feed
\* as it was.
C29_FeedStep ==
    /\ \A id \in DOMAIN events : id \in DOMAIN events' /\ events'[id] = events[id]
    /\ \A t \in Tasks :
        (/\ task[t].pc \in {"built", "published"}
         /\ task'[t].pc = "published"
         /\ task[t].rec.event_id \in DOMAIN events)
            => /\ task'[t].result.kind # "Ok"
               /\ events' = events

C29_AppendOnly == [][C29_FeedStep]_vars

\* an event was published under the id of a stored event with another
\* content: the publish failed and the stored event is the earlier one
C29_Witness ==
    \E t \in Tasks :
        /\ task[t].pc = "published"
        /\ task[t].result = from_sdk_error(ConditionalCheckFailed)
        /\ task[t].rec.event_id \in DOMAIN events
        /\ events[task[t].rec.event_id] # EventItem(task[t].rec)


(* ----------------------------- C30 ------------------------------------- *)
\* the place of a position in the order of a service method's awaits
C30_Rank(pc) ==
    CASE pc = "find_patron" -> 1
      [] pc = "find_book" -> 2
      [] pc = "query" -> 3
      [] pc \in WritePcs -> 4
      [] pc = "publish" -> 5
      [] pc = "idle" -> 6

\* C30 (progress): a call only moves forward through lookup, write and
\* publish, so it makes at most one write attempt and at most one publish
\* attempt and is over after at most five steps.
C30_ForwardStep ==
    \A t \in Tasks :
        task'[t] # task[t] =>
            IF task[t].pc = "idle" THEN task'[t].pc = "find_patron"
            ELSE C30_Rank(task'[t].pc) > C30_Rank(task[t].pc)

\* C30 (write): the step a call makes at its write either takes it to its
\* publish, the store having accepted the write, or ends it with an error in
\* the caller's hands and the table as it was; a refused write always ends it.
C30_WriteStep ==
    \A t \in Tasks :
        (task[t].pc \in WritePcs /\ task'[t] # task[t]) =>
            /\ task'[t].pc = "publish" => WriteReply(t).result = Ok
            /\ task'[t].pc # "publish" =>
                    /\ task'[t].pc = "idle"
                    /\ task'[t].result.kind \notin {"Ok", "none"}
                    /\ WrittenTable(t)' = WrittenTable(t)
            /\ WriteReply(t).result # Ok =>
                    /\ task'[t].pc = "idle"
                    /\ task'[t].result \in {WriteReply(t).result} \cup TransportResults

\* C30 (tables): a table changes only in the write step of one call.
C30_OneWriter ==
    <<checkouts, holds>>' # <<checkouts, holds>> =>
        \E t \in Tasks : task[t].pc \in WritePcs /\ task'[t].pc = "publish"

\* C30: every service operation ends after at most one store write attempt
\* and at most one publish attempt; a failed or version-conflicting write is
\* not retried and its error is returned to the caller.
C30_NoRetry == [][C30_ForwardStep /\ C30_WriteStep /\ C30_OneWriter]_vars

\* a returned call lost the version race to another returned call of the same
\* checkout and has ended with the store's error
C30_Witness ==
    \E t \in Tasks, c \in DOMAIN checkouts :
        /\ task[t].pc = "idle"
        /\ task[t].op = "returned"
        /\ task[t].result = from_sdk_error(ConditionalCheckFailed)
        /\ checkouts[c].checkout_status = "Returned"
        /\ checkouts[c].version = 1


(* ------------------------ the catalog's isbn lookup --------------------- *)
\* A catalog client adds books to an empty catalog and looks books up by
\* isbn.
FindByIsbnPageSize == 100

\* DDBBookRepository::query: the index partition is book_status (Available
\* when the predicate names none), its sort key is isbn
BookRepoQuery(table, predicate, page_size) ==
    QueryPages(table, "book_status", "Available", "isbn", predicate, page_size)

\* the books a client adds
IsbnBooks ==
    {[book_id |-> id, version |-> 0, isbn |-> isbn, title |-> "title",
      book_status |-> st, restricted |-> FALSE, updated_at |-> "Some"] :
        id \in BookIds, isbn \in {"isbn1", "isbn2"}, st \in {"Available", "CheckedOut"}}

\* CatalogServiceImpl::find_book_by_isbn: one query with the predicate
\* {isbn}, no cursor and page size 100; the records of the page are the answer
FindBookByIsbn(t, isbn) ==
    /\ task[t].pc = "idle"
    /\ service = "catalog"
    /\ \/ \E e \in TransportErrors :
            task' = [task EXCEPT ![t] =
                        [IdleTask EXCEPT !.op = "find_book_by_isbn",
                                         !.rec = [isbn |-> isbn, records |-> {}],
                                         !.result = from_sdk_error(e)]]
       \/ \E page \in BookRepoQuery(books, ("isbn" :> isbn), FindByIsbnPageSize) :
            task' = [task EXCEPT ![t] =
                        [IdleTask EXCEPT !.op = "find_book_by_isbn",
                                         !.rec = [isbn |-> isbn,
                                                  records |-> {BookEntityFromItem(books[id]) :
                                                                  id \in page}],
                                         !.result = Ok]]
    /\ UNCHANGED <<service, books, parties, checkouts, holds, events>>

InitIsbn ==
    /\ service = "catalog"
    /\ books = << >>
    /\ parties = << >>
    /\ checkouts = << >>
    /\ holds = << >>
    /\ events = EmptyBag
    /\ task = [t \in Tasks |-> IdleTask]

NextIsbn ==
    \E t \in {"t1"} :
        \/ \E book \in IsbnBooks : StartCatalog(t, "add_book", book)
        \/ CatalogWrite(t)
        \/ Publish(t)
        \/ \E isbn \in {"isbn1", "isbn2"} : FindBookByIsbn(t, isbn)

SpecIsbn == InitIsbn /\ [][NextIsbn]_vars

(* ----------------------------- C31 ------------------------------------- *)
\* C31: after add_book(b) has succeeded for a book b of any status,
\* find_book_by_isbn(b.isbn) returns a list that holds b (at most 100 stored
\* books share the isbn); when no stored book has the isbn the answer is the
\* empty list, not an error of the lookup.
C31_FindByIsbnStep ==
    \A t \in Tasks :
        (task'[t] # task[t] /\ task'[t].op = "find_book_by_isbn"
            /\ task'[t].result = Ok) =>
            LET isbn == task'[t].rec.isbn
                added == {id \in DOMAIN books :
                            /\ books[id].isbn = isbn
                            /\ BagIn(EventOf("add_book", [book_id |-> id]), events)}
            IN /\ \A id \in added :
                    \E b \in task'[t].rec.records : b.book_id = id
               /\ (\A id \in DOMAIN books : books[id].isbn # isbn) =>
                    task'[t].rec.records = {}

C31_FindByIsbnFindsAdded == [][C31_FindByIsbnStep]_vars


(* ----------------------------- C32 ------------------------------------- *)
\* a call of one of the five methods ends here with NotFound (or with the
\* error of a lookup the store could not be reached for) and nothing written
C32_EndsNotFound(t) ==
    /\ task'[t].pc = "idle"
    /\ task'[t].result \in {not_found} \cup TransportResults
    /\ <<books, parties, checkouts, holds, events>>'
            = <<books, parties, checkouts, holds, events>>

\* C32 (steps): every call starts at the patron lookup and reaches the book
\* lookup only from it; the patron lookup of an absent patron and the book
\* lookup of an absent book end the call.
C32_ResolveStep ==
    \A t \in Tasks :
        (task'[t] # task[t] /\ task'[t].op \in Ops) =>
            /\ task[t].pc = "idle" => task'[t].pc = "find_patron"
            /\ task'[t].pc = "find_book" => task[t].pc = "find_patron"
            /\ (task[t].pc = "find_patron" /\ task[t].patron_id \notin DOMAIN parties)
                    => C32_EndsNotFound(t)
            /\ (task[t].pc = "find_book" /\ task[t].book_id \notin DOMAIN books)
                    => C32_EndsNotFound(t)
            /\ (task[t].pc = "find_patron" /\ task'[t].pc = "idle"
                    /\ task'[t].result = not_found)
                    => task[t].patron_id \notin DOMAIN parties

\* C32 (states): a call that is past its lookups, at the availability and
\* restriction outcome, its query, its write or its publish, names a patron
\* and a book the store has; a call that ended with a Validation error does
\* so too.
C32_Resolved ==
    \A t \in Tasks :
        (task[t].op \in Ops
            /\ \/ task[t].pc \in {"query", "create", "update", "publish"}
               \/ task[t].pc = "idle" /\ task[t].result.kind \in {"Validation", "Ok"})
            => /\ task[t].patron_id \in DOMAIN parties
               /\ task[t].book_id \in DOMAIN books

MaxMessages == 2

TopicNames == {"books", "book_checkout"}

\* SESPublisher: the topics map of one instance, with the caller's last call
SESPublisher(topics, last, result) ==
    Caller("publisher", [topics |-> topics, last |-> last], result)

\* a publisher that sends under the event's name when it has no topic for it
SnsPublish_WithoutTopic(t, event) ==
    /\ task[t].pc = "publisher"
    /\ BagCardinality(events) < MaxMessages
    /\ LET topics == task[t].rec.topics
           last == [op |-> "publish", name |-> event.name]
       IN \/ /\ task' = [task EXCEPT ![t] = SESPublisher(topics, last, runtime)]
             /\ UNCHANGED events
          \/ /\ events' = events (+) SetToBag({[topic_arn |-> IF event.name \in DOMAIN topics
                                                              THEN topics[event.name]
                                                              ELSE event.name,
                                                message |-> event]})
             /\ task' = [task EXCEPT ![t] = SESPublisher(topics, last, Ok)]
    /\ UNCHANGED <<service, books, parties, checkouts, holds>>

\* SESPublisher::create_topic: the topic is registered once the service has
\* answered; an answer without an arn registers the empty arn
CreateTopic(t, name) ==
    /\ task[t].pc = "publisher"
    /\ LET topics == task[t].rec.topics
           last == [op |-> "create_topic", name |-> name]
       IN \/ task' = [task EXCEPT ![t] = SESPublisher(topics, last, runtime)]
          \/ \E arn \in {name, ""} :
                task' = [task EXCEPT ![t] =
                    SESPublisher([n \in DOMAIN topics \cup {name} |->
                                    IF n = name THEN arn ELSE topics[n]], last, Ok)]
    /\ UNCHANGED <<service, books, parties, checkouts, holds, events>>

\* SESPublisher::publish
SnsPublish(t, event) ==
    /\ task[t].pc = "publisher"
    /\ BagCardinality(events) < MaxMessages
    /\ LET topics == task[t].rec.topics
           last == [op |-> "publish", name |-> event.name]
       IN IF event.name \in DOMAIN topics
          THEN \/ /\ task' = [task EXCEPT ![t] = SESPublisher(topics, last, runtime)]
                  /\ UNCHANGED events
               \/ /\ events' = events (+) SetToBag({[topic_arn |-> topics[event.name],
                                                     message |-> event]})
                  /\ task' = [task EXCEPT ![t] = SESPublisher(topics, last, Ok)]
          ELSE /\ task' = [task EXCEPT ![t] = SESPublisher(topics, last, runtime)]
               /\ UNCHANGED events
    /\ UNCHANGED <<service, books, parties, checkouts, holds>>

\* create_publisher(GatewayPublisherVia::Sns): SESPublisher::new, no topics
InitSns ==
    /\ service = "sns"
    /\ books = << >>
    /\ parties = << >>
    /\ checkouts = << >>
    /\ holds = << >>
    /\ events = EmptyBag
    /\ task = [t \in Tasks |-> SESPublisher(<< >>, [op |-> "new", name |-> ""], NoResult)]

\* the events the services build: DomainEvent::added / deleted under a name
SnsEvents ==
    {DomainEvent(name, name, "b1", kind) : name \in TopicNames, kind \in {"Added", "Deleted"}}

NextSns ==
    \E t \in Tasks :
        \/ \E name \in TopicNames : CreateTopic(t, name)
        \/ \E event \in SnsEvents : SnsPublish(t, event)

SpecSns == InitSns /\ [][NextSns]_vars

(* ----------------------------- C33 ------------------------------------- *)
\* the step is a publish call of the instance t
C33_IsPublish(t) ==
    /\ task'[t] # task[t]
    /\ task'[t].rec.last.op = "publish"

\* C33 (steps): a message is sent only by a publish on an instance that has
\* the event's name among its topics, to that topic; a publish on an instance
\* without the topic fails with a Runtime error and sends nothing; an
\* instance gets a topic only by a create_topic of that name that succeeds.
C33_PublishStep ==
    /\ events' # events =>
            \E t \in Tasks :
                /\ task'[t].rec.last.op = "publish"
                /\ task'[t].result = Ok
                /\ task'[t].rec.last.name \in DOMAIN task[t].rec.topics
                /\ \E m \in BagToSet(events') :
                        /\ m.message.name = task'[t].rec.last.name
                        /\ m.topic_arn = task[t].rec.topics[m.message.name]
                        /\ events' = events (+) SetToBag({m})
    /\ \A t \in Tasks :
        /\ (C33_IsPublish(t) /\ task'[t].rec.last.name \notin DOMAIN task[t].rec.topics)
                => task'[t].result = runtime /\ events' = events
        /\ \A n \in DOMAIN task'[t].rec.topics \ DOMAIN task[t].rec.topics :
                /\ task'[t].rec.last = [op |-> "create_topic", name |-> n]
                /\ task'[t].result = Ok
        /\ DOMAIN task[t].rec.topics \subseteq DOMAIN task'[t].rec.topics

\* C33 (start): the publisher of create_publisher has no topics before its
\* first call.
C33_StartsEmpty ==
    \A t \in Tasks : task[t].rec.last.op = "new" => task[t].rec.topics = << >>

\* C33: with the SNS publisher, publish(event) sends a message only if
\* create_topic(event.name) completed earlier on the same instance;
\* publishing an event whose name has no topic fails with a Runtime error and
\* sends nothing; a new publisher has no topics.
C33_PublishNeedsTopic == []C33_StartsEmpty /\ [][C33_PublishStep]_vars

\* one instance has sent a message for a name after creating its topic, and
\* the other instance, which has no topic of that name, was refused
C33_Witness ==
    \E t, u \in Tasks, n \in TopicNames :
        /\ t # u
        /\ n \in DOMAIN task[t].rec.topics
        /\ \E m \in BagToSet(events) : m.message.name = n
        /\ n \notin DOMAIN task[u].rec.topics
        /\ task[u].rec.last = [op |-> "publish", name |-> n]
        /\ task[u].result = runtime


(* ------------------- updates of ids the store lacks --------------------- *)
\* One caller of a repository that holds one record: it builds or reads an
\* entity, updates it and reads an id back.
NextAbsent ==
    \E t \in {"t1"} :
        \/ \E id \in RepoIds(service) : RepoGet(t, id)
        \/ \E e \in BuiltEntities(service) : RepoBuild(t, e)
        \/ RepoUpdate(t)
        \/ \E id \in RepoIds(service) : RepoFind(t, id)

SpecAbsent == InitUpdate /\ [][NextAbsent]_vars

(* ----------------------------- C34 ------------------------------------- *)
\* C34 (step part): an update of an entity whose id the store does not have
\* fails and leaves the table as it was, so the id is still not stored.
C34_UpdateStep ==
    \A t \in Tasks :
        (task[t].pc = "holding" /\ task'[t].pc = "updated"
            /\ task[t].rec[IdField(service)] \notin DOMAIN Table(service)) =>
            /\ task'[t].result.kind \notin {"Ok", "none"}
            /\ Table(service)' = Table(service)
            /\ task[t].rec[IdField(service)] \notin DOMAIN Table(service)'

\* C34 (state part): a get(id) that directly follows an update of an entity
\* with that id, an id the store does not have, yields NotFound, and the
\* update had failed.
C34_GetAfterUpdate ==
    \A t \in Tasks :
        (task[t].pc = "found" /\ task[t].prev.pc = "updated"
            /\ task[t].prev.rec[IdField(service)] = task[t].rec[IdField(service)]
            /\ task[t].rec[IdField(service)] \notin DOMAIN Table(service)) =>
            /\ task[t].prev.result.kind \notin {"Ok", "none"}
            /\ task[t].result = not_found

build_book_StoredVersion(req) ==
    [book_id |-> req.book_id,
     version |-> IF req.book_id \in DOMAIN books THEN books[req.book_id].version ELSE 0,
     isbn |-> req.isbn, title |-> req.title, book_status |-> req.book_status,
     restricted |-> req.restricted, updated_at |-> "Some"]

\* UpdateBookCommandRequest::build_book, then BookEntity::from(&BookDto)
build_book(req) ==
    [book_id |-> req.book_id, version |-> 0, isbn |-> req.isbn, title |-> req.title,
     book_status |-> req.book_status, restricted |-> req.restricted,
     updated_at |-> "Some"]

\* UpdatePatronCommandRequest::build_patron, then PartyEntity::from(&PatronDto)
build_patron(req) ==
    [party_id |-> req.patron_id, version |-> 0, kind |-> "Patron", email |-> req.email,
     group_roles |-> {}, updated_at |-> "Some"]

UpdateBookCommandRequests ==
    {[book_id |-> "b1", isbn |-> "isbn", title |-> title, book_status |-> st,
      restricted |-> FALSE] :
        title \in {"title", "title2"}, st \in {"Available", "CheckedOut"}}

UpdatePatronCommandRequests ==
    {[patron_id |-> "p1", email |-> email] : email \in {"email", "email2"}}

\* UpdateBookCommand::execute, up to the call of update_book; add and remove
\* commands reach the service in the same way
BookCommand(t, o, req) == StartCatalog(t, o, build_book(req))

\* UpdatePatronCommand::execute, up to the call of update_patron
PatronCommand(t, o, req) == StartPatron(t, o, build_patron(req))

InitCommand ==
    /\ service \in {"catalog", "patrons"}
    /\ books = ("b1" :> BookItem("b1", "Available", FALSE))
    /\ parties = ("p1" :> PartyItem("p1", "L", {}))
    /\ checkouts = << >>
    /\ holds = << >>
    /\ events = EmptyBag
    /\ task = [t \in Tasks |-> IdleTask]

NextCommand ==
    \E t \in {"t1"} :
        \/ \E o \in CatalogOps, req \in UpdateBookCommandRequests : BookCommand(t, o, req)
        \/ \E o \in {"add_patron", "update_patron", "remove_patron"},
              req \in UpdatePatronCommandRequests : PatronCommand(t, o, req)
        \/ CatalogWrite(t)
        \/ Publish(t)
        \/ PatronCall(t)

SpecCommand == InitCommand /\ [][NextCommand]_vars

(* ----------------------------- C35 ------------------------------------- *)
\* the update commands at their store write
C35_Updating(t) ==
    \/ task[t].op = "update_book" /\ task[t].pc = "write"
    \/ task[t].op = "update_patron" /\ task[t].pc = "party_call"

C35_Table == IF service = "catalog" THEN books ELSE parties

C35_Id(t) == IF service = "catalog" THEN task[t].rec.book_id ELSE task[t].rec.party_id

\* C35 (states): an update command always submits version 0.
C35_SubmitsZero == \A t \in Tasks : C35_Updating(t) => task[t].rec.version = 0

\* C35 (steps): the write of an update command is accepted only when the
\* stored version is 0, and then the stored version becomes 1; when the
\* stored record has been updated before, the command is rejected with the
\* store's refusal of the condition and the record is left as it was. The
\* version of a record never goes down while the record is stored.
C35_UpdateStep ==
    /\ \A t \in Tasks :
        (C35_Updating(t) /\ task'[t] # task[t]) =>
            LET id == C35_Id(t)
                accepted == \/ task'[t].pc = "publish"
                            \/ task'[t].pc = "idle" /\ task'[t].result = Ok
            IN /\ accepted => /\ id \in DOMAIN C35_Table
                              /\ C35_Table[id].version = 0
                              /\ C35_Table'[id].version = 1
               /\ (id \in DOMAIN C35_Table /\ C35_Table[id].version >= 1) =>
                    /\ ~accepted
                    /\ task'[t].result \in
                            {from_sdk_error(ConditionalCheckFailed)} \cup TransportResults
                    /\ C35_Table' = C35_Table
    /\ \A id \in DOMAIN C35_Table \cap DOMAIN C35_Table' :
            C35_Table'[id].version >= C35_Table[id].version

ForeignEntities(repo) ==
    IF repo = "checkout"
    THEN {[CheckoutFromPatronBook(id, branch, [patron_id |-> "p2"], [book_id |-> "b2"])
            EXCEPT !.version = v, !.checkout_status = st, !.returned_at = ret] :
            id \in RepoIds(repo), branch \in {BranchId, "other"},
            v \in 0..MaxVersion, st \in CheckoutStatus, ret \in {"None", "Some"}}
    ELSE {[HoldFromPatronBook(id, branch, [patron_id |-> "p2"], [book_id |-> "b2"])
            EXCEPT !.version = v, !.hold_status = st, !.canceled_at = ret] :
            id \in RepoIds(repo), branch \in {BranchId, "other"},
            v \in 0..MaxVersion, st \in {"OnHold", "Canceled"}, ret \in {"None", "Some"}}

InitFrame == InitUpdate /\ service \in {"checkout", "hold"}

NextFrame ==
    \E t \in {"t1"} :
        \/ \E id \in RepoIds(service) : RepoGet(t, id)
        \/ \E e \in ForeignEntities(service) : RepoBuild(t, e)
        \/ RepoUpdate(t)

SpecFrame == InitFrame /\ [][NextFrame]_vars

(* ----------------------------- C36 ------------------------------------- *)
\* the attributes a checkout update and a hold update may write
C36_Written ==
    IF service = "checkout"
    THEN {"version", "checkout_status", "due_at", "returned_at", "updated_at"}
    ELSE {"version", "hold_status", "hold_at", "expires_at", "canceled_at",
          "checked_out_at", "updated_at"}

\* C36 (steps): an update leaves the set of stored ids as it is, and in every
\* stored record each attribute outside the update expression (id, book_id,
\* patron_id, branch_id, checkout_at, created_at) keeps its stored value.
C36_FrameStep ==
    /\ DOMAIN Table(service)' = DOMAIN Table(service)
    /\ \A id \in DOMAIN Table(service) :
        \A field \in (DOMAIN Table(service)[id]) \ C36_Written :
            Table(service)'[id][field] = Table(service)[id][field]

\* C36: a repository update of a Checkout or Hold changes only version,
\* status, the timestamp fields named in its update expression and
\* updated_at; the stored id, book_id, patron_id, branch_id and created_at
\* are left unchanged by every update, whatever the passed entity carries.
C36_UpdateFrame == [][C36_FrameStep]_vars

\* an update was accepted whose entity named another patron, book and branch
\* than the stored record
C36_Witness ==
    \E t \in Tasks :
        /\ service \in {"checkout", "hold"}
        /\ task[t].pc = "updated"
        /\ task[t].result = Ok
        /\ LET id == task[t].rec[IdField(service)]
           IN /\ id \in DOMAIN Table(service)
              /\ Table(service)[id].version = task[t].rec.version + 1
              /\ Table(service)[id].patron_id # task[t].rec.patron_id
              /\ Table(service)[id].book_id # task[t].rec.book_id
              /\ Table(service)[id].branch_id # task[t].rec.branch_id


(* ----------------------------- C37 ------------------------------------- *)
\* C37: for records created and modified only through the checkout and hold
\* services, in every reachable state a Checkout has version 0 and a null
\* returned_at exactly while its status is CheckedOut, and version 1 and a
\* non-null returned_at exactly when it is Returned; a Hold has version 0
\* while OnHold and version 1 once it is Canceled or CheckedOut.
C37_VersionFollowsStatus ==
    /\ \A id \in DOMAIN checkouts :
        LET c == checkouts[id]
        IN /\ c.checkout_status \in {"CheckedOut", "Returned"}
           /\ c.checkout_status = "CheckedOut" <=> (c.version = 0 /\ c.returned_at = "Null")
           /\ c.checkout_status = "Returned" <=> (c.version = 1 /\ c.returned_at = "Naive")
    /\ \A id \in DOMAIN holds :
        LET h == holds[id]
        IN /\ h.hold_status = "OnHold" => h.version = 0
           /\ h.hold_status \in {"Canceled", "CheckedOut"} => h.version = 1

\* a returned checkout is stored, or a hold that is no longer OnHold
C37_Witness ==
    \/ \E id \in DOMAIN checkouts :
            checkouts[id].checkout_status = "Returned" /\ checkouts[id].version = 1
    \/ \E id \in DOMAIN holds :
            holds[id].hold_status \in {"Canceled", "CheckedOut"} /\ holds[id].version = 1

(* ------------------ LibraryError into CommandError --------------------- *)
\* the kinds of LibraryError; Database and CurrentlyUnavailable carry a flag
LibraryErrorKinds ==
    {"Database", "AccessDenied", "NotGranted", "DuplicateKey", "NotFound",
     "CurrentlyUnavailable", "Validation", "Serialization", "Runtime"}

LibraryErrors ==
    {LibErr(kind, flag, reason_code) :
        kind \in LibraryErrorKinds, flag \in BOOLEAN, reason_code \in {"", "400"}}
    \ {e \in [kind : LibraryErrorKinds, retryable : {TRUE}, reason_code : {"", "400"}] :
            e.kind \notin {"Database", "CurrentlyUnavailable"}}

\* LibraryError::retryable
retryable(err) ==
    IF err.kind \in {"Database", "CurrentlyUnavailable"} THEN err.retryable ELSE FALSE

\* a CommandError; has_retryable tells whether the variant has the flag
CommandError(kind, has_retryable, flag, reason_code) ==
    [kind |-> kind, has_retryable |-> has_retryable, retryable |-> flag,
     reason_code |-> reason_code]

NoCommandError == CommandError("none", FALSE, FALSE, "")

\* impl From<LibraryError> for CommandError
from_library_error(other) ==
    CASE other.kind = "Database" ->
            CommandError("Database", TRUE, other.retryable, other.reason_code)
      [] other.kind \in {"AccessDenied", "NotGranted"} ->
            CommandError("Access", FALSE, FALSE, other.reason_code)
      [] other.kind = "DuplicateKey" -> CommandError("DuplicateKey", FALSE, FALSE, "")
      [] other.kind = "NotFound" -> CommandError("NotFound", FALSE, FALSE, "")
      [] other.kind = "CurrentlyUnavailable" ->
            CommandError("Runtime", TRUE, other.retryable, other.reason_code)
      [] other.kind = "Validation" ->
            CommandError("Validation", FALSE, FALSE, other.reason_code)
      [] other.kind = "Serialization" -> CommandError("Serialization", FALSE, FALSE, "")
      [] other.kind = "Runtime" -> CommandError("Runtime", TRUE, TRUE, other.reason_code)

\* `.map_err(CommandError::from)` on the error a service call returned
MapErr(t) ==
    /\ task[t].pc = "library_error"
    /\ task' = [task EXCEPT ![t] =
                  Caller("command_error",
                         [task[t].rec EXCEPT !.converted = from_library_error(task[t].rec.source)],
                         NoResult)]
    /\ UNCHANGED <<service, books, parties, checkouts, holds, events>>

InitConvert ==
    /\ service = "command"
    /\ books = << >>
    /\ parties = << >>
    /\ checkouts = << >>
    /\ holds = << >>
    /\ events = EmptyBag
    /\ task \in [Tasks ->
            {Caller("library_error", [source |-> e, converted |-> NoCommandError], NoResult) :
                e \in LibraryErrors}]

NextConvert == \E t \in Tasks : MapErr(t)

SpecConvert == InitConvert /\ [][NextConvert]_vars

(* ----------------------------- C38 ------------------------------------- *)
\* C38: converting a LibraryError into a CommandError preserves
\* retryability: whenever the resulting CommandError carries a retryable
\* flag, the flag equals LibraryError::retryable() of the source error; in
\* particular a Runtime error is reported as not retryable.
C38_RetryablePreserved ==
    \A t \in Tasks :
        (task[t].pc = "command_error" /\ task[t].rec.converted.has_retryable) =>
            task[t].rec.converted.retryable = retryable(task[t].rec.source)

\* C38 (what holds): the flag is preserved for a Database and for a
\* CurrentlyUnavailable source; a Runtime source always converts with the
\* flag set, and no other source converts into a variant that has the flag.
C38_PreservedButForRuntime ==
    \A t \in Tasks :
        (task[t].pc = "command_error" /\ task[t].rec.converted.has_retryable) =>
            /\ task[t].rec.source.kind \in {"Database", "CurrentlyUnavailable", "Runtime"}
            /\ task[t].rec.converted.retryable =
                    IF task[t].rec.source.kind = "Runtime" THEN TRUE
                    ELSE retryable(task[t].rec.source)


(* --------------------------- the cursor -------------------------------- *)
\* The cursor as callers hold it: a text. AttributeValue is a pair of its
\* type and its value; a JSON text is its form and, for an object, the map
\* of its members, each a pair of its JSON type and its value.
AttributeValueS(v) == <<"S", v>>

\* serde_json::to_string(&str_map)
json_to_string(str_map) ==
    [form |-> "object", map |-> [k \in DOMAIN str_map |-> <<"string", str_map[k]>>]]

\* texts a caller may pass as page that are not the JSON of a string map
OtherPages ==
    {[form |-> "text", map |-> << >>],
     [form |-> "array", map |-> << >>],
     [form |-> "object", map |-> ("checkout_id" :> <<"number", "1">>)]}

\* serde_json::from_str::<HashMap<String, String>>(page).ok()
json_from_str(text) ==
    IF text.form = "object" /\ \A k \in DOMAIN text.map : text.map[k][1] = "string"
    THEN [k \in DOMAIN text.map |-> text.map[k][2]]
    ELSE NoPage

\* from_ddb with the attributes typed: the S attributes of the last evaluated
\* key as JSON text
from_ddb_json(last_evaluated_key) ==
    json_to_string([k \in {a \in DOMAIN last_evaluated_key :
                                last_evaluated_key[a][1] = "S"} |->
                        last_evaluated_key[k][2]])

\* to_ddb_page with the page as text: parse, merge, every value an S attribute
to_ddb_page_json(page, predicate) ==
    LET str_map == IF page = NoPage THEN NoPage ELSE json_from_str(page)
        attr_map == to_ddb_page(str_map, predicate)
    IN IF attr_map = NoPage THEN NoPage
       ELSE [k \in DOMAIN attr_map |-> AttributeValueS(attr_map[k])]

\* last evaluated keys of the checkout index; the last one has a number
LastEvaluatedKeys ==
    {("checkout_status" :> AttributeValueS("CheckedOut")
        @@ "patron_id" :> AttributeValueS(p) @@ "checkout_id" :> id) :
        p \in PatronIds, id \in {AttributeValueS("1"), AttributeValueS("2"), <<"N", "1">>}}

\* predicates: empty, a key of the cursor, a filter field, an operator key
CursorPredicates ==
    {<< >>, ("patron_id" :> "p2"), ("book_id" :> "b1"), ("due_at:<=" :> "3"),
     ("patron_id" :> "p1" @@ "due_at:<=" :> "3")}

Cursor(key, predicate, page, start) ==
    [key |-> key, predicate |-> predicate, page |-> page, start |-> start]

\* from_ddb at the end of a query
FromDdb(t) ==
    /\ task[t].pc = "last_key"
    /\ task' = [task EXCEPT ![t] =
                  Caller("next_page",
                         [task[t].rec EXCEPT !.page = from_ddb_json(task[t].rec.key)],
                         NoResult)]
    /\ UNCHANGED <<service, books, parties, checkouts, holds, events>>

\* to_ddb_page at the start of the next query
ToDdbPage(t) ==
    /\ task[t].pc = "next_page"
    /\ task' = [task EXCEPT ![t] =
                  Caller("start_key",
                         [task[t].rec EXCEPT
                            !.start = to_ddb_page_json(task[t].rec.page,
                                                       task[t].rec.predicate)],
                         NoResult)]
    /\ UNCHANGED <<service, books, parties, checkouts, holds, events>>

\* a query has ended with a last evaluated key, or a caller passes a page of
\* its own making, or none
CursorCalls ==
    {Caller("last_key", Cursor(key, predicate, NoPage, NoPage), NoResult) :
        key \in LastEvaluatedKeys, predicate \in CursorPredicates}
    \cup {Caller("next_page", Cursor(NoPage, predicate, page, NoPage), NoResult) :
            page \in OtherPages \cup {NoPage}, predicate \in CursorPredicates}

InitCursor ==
    /\ service = "checkout"
    /\ books = << >>
    /\ parties = << >>
    /\ checkouts = << >>
    /\ holds = << >>
    /\ events = EmptyBag
    /\ task \in [Tasks -> CursorCalls]

NextCursor == \E t \in Tasks : FromDdb(t) \/ ToDdbPage(t)

SpecCursor == InitCursor /\ [][NextCursor]_vars

(* ----------------------------- C39 ------------------------------------- *)
C39_AllStrings(key) == \A k \in DOMAIN key : key[k][1] = "S"

\* C39: for a last evaluated key K whose attributes are all strings and a
\* predicate P, the exclusive start key of the next query is K with every
\* entry of P added or overwritten as a string attribute, operator keys such
\* as "due_at:<=" verbatim; for the empty P it is exactly K; a page that is
\* not the JSON of a string map gives no start key.
C39_StartKey ==
    \A t \in Tasks :
        task[t].pc = "start_key" =>
            LET c == task[t].rec
            IN /\ (c.key # NoPage /\ C39_AllStrings(c.key)) =>
                    /\ c.start # NoPage
                    /\ DOMAIN c.start = DOMAIN c.key \cup DOMAIN c.predicate
                    /\ \A k \in DOMAIN c.start :
                            c.start[k] = IF k \in DOMAIN c.predicate
                                         THEN AttributeValueS(c.predicate[k])
                                         ELSE c.key[k]
                    /\ c.predicate = << >> => c.start = c.key
               /\ (c.key = NoPage) => c.start = NoPage

\* a start key was built from a cursor whose patron_id the predicate
\* overwrote and to which it added the operator key
C39_Witness ==
    \E t \in Tasks :
        /\ task[t].pc = "start_key"
        /\ task[t].rec.key # NoPage
        /\ C39_AllStrings(task[t].rec.key)
        /\ task[t].rec.key["patron_id"] = AttributeValueS("p2")
        /\ task[t].rec.start # NoPage
        /\ "due_at:<=" \in DOMAIN task[t].rec.start
        /\ task[t].rec.start["patron_id"] = AttributeValueS("p1")


(* ------------------------ has_exceeded_limit --------------------------- *)
MaxBodyLen == 7

\* the bytes of "ceeded"
Ceeded == <<"c", "e", "e", "d", "e", "d">>

\* response bodies: every byte string over the letters of "ceeded", up to
\* MaxBodyLen bytes
Bodies == UNION {[1..n -> {"c", "e", "d"}] : n \in 0..MaxBodyLen}

\* ctx.raw().http().body().bytes() of a body that is not in memory
NoBody == <<"None">>

\* the builds: overflow checks are on in a debug build, off in a release one
Builds == {"debug", "release"}

\* the comparison `b[i] == b'c' && b[i + 1] == b'e' && ..` at 0-based index
\* i, from the j-th byte of the pattern on: an index past the end panics, a
\* differing byte ends the comparison
CompareAt(b, i, j) ==
    LET RECURSIVE cmp(_)
        cmp(k) ==
            IF k > Len(Ceeded) THEN "true"
            ELSE IF i + k > Len(b) THEN "panic"
            ELSE IF b[i + k] # Ceeded[k] THEN "false"
            ELSE cmp(k + 1)
    IN cmp(j)

\* `for i in 0..n`, from index i on; when the bound has wrapped around it is
\* above every index a body has
ScanFrom(b, i, n, wrapped) ==
    LET RECURSIVE scan(_)
        scan(k) ==
            IF ~wrapped /\ k >= n THEN "false"
            ELSE LET found == CompareAt(b, k, 1)
                 IN IF found = "false" THEN scan(k + 1) ELSE found
    IN scan(i)

\* has_exceeded_limit: "true", "false" or "panic"
has_exceeded_limit(build, opts) ==
    IF opts = NoBody THEN "false"
    ELSE IF Len(opts) >= 6 THEN ScanFrom(opts, 0, Len(opts) - 6, FALSE)
    ELSE IF build = "debug" THEN "panic"
    ELSE ScanFrom(opts, 0, 0, TRUE)

\* retryable_sdk_error reaches has_exceeded_limit with the body of a service
\* error whose status is no server error
HasExceededLimit(t, build) ==
    /\ task[t].pc = "body"
    /\ task' = [task EXCEPT ![t] =
                  Caller("scanned",
                         [task[t].rec EXCEPT
                            !.build = build,
                            !.exceeded = has_exceeded_limit(build, task[t].rec.body)],
                         NoResult)]
    /\ UNCHANGED <<service, books, parties, checkouts, holds, events>>

InitBody ==
    /\ service = "checkout"
    /\ books = << >>
    /\ parties = << >>
    /\ checkouts = << >>
    /\ holds = << >>
    /\ events = EmptyBag
    /\ \E body \in Bodies \cup {NoBody} :
            task = [t \in Tasks |->
                        Caller("body", [body |-> body, build |-> "", exceeded |-> ""],
                               NoResult)]

NextBody == \E t \in Tasks, build \in Builds : HasExceededLimit(t, build)

SpecBody == InitBody /\ [][NextBody]_vars

(* ----------------------------- C40 ------------------------------------- *)
C40_Contains(b) ==
    /\ b # NoBody
    /\ \E i \in 1..(Len(b) - 5) : SubSeq(b, i, i + 5) = Ceeded

\* C40: has_exceeded_limit(body) returns true exactly when the body contains
\* the bytes "ceeded" and false otherwise, without failing, for every body,
\* bodies shorter than 6 bytes and a match ending at the last byte included.
C40_TrueIffContains ==
    \A t \in Tasks :
        task[t].pc = "scanned" =>
            task[t].rec.exceeded =
                IF C40_Contains(task[t].rec.body) THEN "true" ELSE "false"

\* C40 (what holds): a body of fewer than 6 bytes panics; a longer body gives
\* true exactly when "ceeded" begins before its last six bytes; no body
\* (None) gives false.
C40_Actual ==
    \A t \in Tasks :
        task[t].pc = "scanned" =>
            LET b == task[t].rec.body
            IN task[t].rec.exceeded =
                IF b = NoBody THEN "false"
                ELSE IF Len(b) < 6 THEN "panic"
                ELSE IF C40_Contains(SubSeq(b, 1, Len(b) - 1)) THEN "true"
                ELSE "false"

====
